---------------------------- MODULE Spec2Model ----------------------------
(***************************************************************************)
(* A model of the sales RAG services of kloudtaxi/sovera-lab:              *)
(*   - the retrieval endpoints of api/rag-api.py (semantic_search,         *)
(*     contextual_search) and the search methods of PostgresRAGLoader      *)
(*     (scripts/postgres-loader.py);                                       *)
(*   - the mining endpoints of api/rag-api-extended-patterns.py            *)
(*     (get_objection_handling, get_sales_suggestions).                    *)
(*                                                                         *)
(* The store (PostgreSQL with pgvector) is modelled by its tables, held in *)
(* the variables docs, interactions, opportunities, customers and          *)
(* sales_people, and by the semantics of the SQL each handler sends.       *)
(* Where SQL leaves the result open (the order of rows that tie under      *)
(* ORDER BY) the model chooses nondeterministically among the results the  *)
(* store can produce.  Values fetched from the store are taken as decoded  *)
(* (jsonb as lists and maps).                                              *)
(*                                                                         *)
(* Numbers: similarities are percentages (100 = 1.0); rates are pairs      *)
(* <<numerator, denominator>>.  An optional value is <<>> (None) or <<v>>. *)
(***************************************************************************)
EXTENDS Integers, Sequences, FiniteSets, TLC

VARIABLES
    docs,            \* table document_embeddings: row id -> row
    interactions,    \* table interactions: row id -> row
    opportunities,   \* table opportunities: row id -> row
    customers,       \* table customers: row id -> row
    sales_people,    \* table sales_people: the set of ids it holds
    pc,              \* "idle": waiting for a request; "done": a response is out
    req,             \* the request being answered (its operation and arguments)
    resp,            \* the response or the exception the caller receives
    queries,         \* number of store queries issued for the current request
    pool,            \* the connection pool of the operation in progress
    run,             \* the position of the operation that runs step by step
    gen,             \* the data generators of the process and their output
    mongo,           \* the collections of the MongoDB database
    tasks,           \* the calls that run concurrently: task -> its position
    pools,           \* the pool objects create_pool has made, in order
    config           \* the RAGConfig instance of the API: its attribute pool

vars == <<docs, interactions, opportunities, customers, sales_people,
          pc, req, resp, queries, pool, run, gen, mongo, tasks, pools, config>>

storeVars == <<docs, interactions, opportunities, customers, sales_people>>

\* What a request handler of the API never touches.
procVars == <<pool, run, gen, mongo, tasks, pools, config>>

\* The state of the concurrent calls.
taskVars == <<tasks, pools, config>>

\* Mutant of fetch: the statement removes the documents it has read.
fetchAndDelete ==
    /\ docs' = <<>>
    /\ UNCHANGED <<interactions, opportunities, customers, sales_people>>

\* The effect on the store of pool.fetch, pool.fetchrow and conn.fetch in
\* the search and mining handlers: each sends one SELECT statement, which
\* leaves every table as it is.
fetch == UNCHANGED storeVars

(***************************************************************************)
(* Bounds of the model.                                                    *)
(***************************************************************************)
MaxDocs == 2
MaxLimit == 2

\* The number of calls that run concurrently, and the tasks themselves.
MaxTasks == 2
Tasks == 1..MaxTasks

(***************************************************************************)
(* Generic helpers.                                                        *)
(***************************************************************************)
None == <<>>
Some(v) == <<v>>
IsSet(o) == Len(o) > 0
Val(o) == o[1]

Range(s) == {s[i] : i \in DOMAIN s}

RECURSIVE SetToSeq(_)
SetToSeq(S) ==
    IF S = {} THEN <<>>
    ELSE LET x == CHOOSE y \in S : TRUE
         IN  <<x>> \o SetToSeq(S \ {x})

\* The non-decreasing sequences of length n over lo..hi: one representative
\* of every multiset of n row kinds.
RECURSIVE NonDecSeqs(_, _, _)
NonDecSeqs(n, lo, hi) ==
    IF n = 0 THEN {<<>>}
    ELSE UNION {{<<k>> \o s : s \in NonDecSeqs(n - 1, k, hi)} : k \in lo..hi}

\* Every table of at most max rows drawn from the row kinds (a sequence);
\* a row's id is its position.
Tables(kinds, max) ==
    UNION {{[i \in 1..n |-> kinds[s[i]]] : s \in NonDecSeqs(n, 1, Len(kinds))}
           : n \in 0..max}

\* All orderings (sequences without repetition) of a finite set.
RECURSIVE Perms(_)
Perms(S) ==
    IF S = {} THEN {<<>>}
    ELSE UNION {{<<x>> \o p : p \in Perms(S \ {x})} : x \in S}

Prefix(s, n) == IF n >= Len(s) THEN s ELSE SubSeq(s, 1, n)

(***************************************************************************)
(* The embedding provider and the document table.                          *)
(***************************************************************************)
\* Embeddings are vectors of norm 5, so that the cosine of two of them is
\* their dot product over 25.
Embeddings == {<<5, 0>>, <<-3, 4>>}
Queries == {"q1", "q2"}

\* RAGConfig.get_embedding / PostgresRAGLoader.generate_embedding: the
\* encoder is a fixed function from text to vectors.
get_embedding(text) == IF text = "q1" THEN <<5, 0>> ELSE <<3, 4>>

Dot(a, b) == a[1] * b[1] + a[2] * b[2]

\* SQL: 1 - (embedding <=> $1::vector), pgvector's cosine distance, in percent.
Similarity(e, q) == 4 * Dot(e, q)

SourceTypes == {"customer", "interaction"}
SourceIds == {1, 2}
Times == {1, 2}

DocKinds ==
    SetToSeq([source_type : SourceTypes, source_id : SourceIds,
              embedding : Embeddings, created_at : Times])


(***************************************************************************)
(* Requests, responses and faults.                                         *)
(***************************************************************************)
\* What the environment does to the request in flight: nothing, the encoder
\* raises, or the store raises when the query is run.
Faults == {"none", "embedding", "store"}

EncoderError == "encoder failed"
PostgresError == "store failed"

\* A FastAPI handler answers with a body (200) or an HTTPException; a
\* loader method returns a value or lets the exception through.
Ok(body) == [kind |-> "ok", status |-> 200, detail |-> "", body |-> Some(body)]
HTTPException(status_code, detail) ==
    [kind |-> "http_error", status |-> status_code, detail |-> detail, body |-> None]
Raised(exc) == [kind |-> "raised", status |-> 0, detail |-> exc, body |-> None]

NoRequest == [op |-> "none"]
NoResponse == [kind |-> "none", status |-> 0, detail |-> "", body |-> None]

\* Query(ge=1, le=50) of the limit parameter of both search endpoints.
LimitMin == 1
LimitMax == 50
\* FastAPI rejects a request whose parameters break their declared range
\* before the handler runs.
RequestValidationError == HTTPException(422, "validation error")

\* PostgresRAGLoader.default_search_limit (DEFAULT_SEARCH_LIMIT unset).
DefaultSearchLimit == 5

(***************************************************************************)
(* The store's answer to the search query                                  *)
(*   SELECT ..., 1 - (embedding <=> $1::vector) as similarity              *)
(*   FROM document_embeddings WHERE <clauses> ORDER BY similarity DESC     *)
(*   LIMIT <limit>                                                         *)
(* A clause is [kind, a, b]: a and b are the numbers of its placeholders.  *)
(***************************************************************************)
Clause(kind, a, b) == [kind |-> kind, a |-> a, b |-> b]

EvalClause(row, c, params) ==
    CASE c.kind = "similarity_ge" ->
            Similarity(row.embedding, params[c.a]) >= params[c.b]
      [] c.kind = "source_type_eq" -> row.source_type = params[c.a]
      [] c.kind = "source_id_eq" -> row.source_id = params[c.a]
      [] c.kind = "created_between" ->
            row.created_at >= params[c.a] /\ row.created_at <= params[c.b]
      [] c.kind = "source_type_any" -> row.source_type \in params[c.a]

Matching(table, where_clauses, params) ==
    {i \in DOMAIN table :
        \A k \in DOMAIN where_clauses : EvalClause(table[i], where_clauses[k], params)}

\* ORDER BY similarity DESC: every order of the rows in which similarity
\* never increases; rows of equal similarity come in any order.
OrderBySimilarityDesc(table, ids, q) ==
    {p \in Perms(ids) :
        \A i, j \in DOMAIN p :
            i < j => Similarity(table[p[i]].embedding, q)
                        >= Similarity(table[p[j]].embedding, q)}

ResultRow(table, id, q) ==
    [doc |-> id,
     source_type |-> table[id].source_type,
     source_id |-> table[id].source_id,
     similarity |-> Similarity(table[id].embedding, q)]

\* Mutant of FetchDocuments: the LIMIT is not applied.
FetchDocumentsNoLimit(table, where_clauses, params, limit) ==
    {[i \in DOMAIN p |-> ResultRow(table, p[i], params[1])] :
        p \in OrderBySimilarityDesc(table, Matching(table, where_clauses, params),
                                    params[1])}

\* The set of results the store can return.
FetchDocuments(table, where_clauses, params, limit) ==
    {[i \in DOMAIN Prefix(p, limit) |-> ResultRow(table, p[i], params[1])] :
        p \in OrderBySimilarityDesc(table, Matching(table, where_clauses, params),
                                    params[1])}

(***************************************************************************)
(* api/rag-api.py: semantic_search                                         *)
(***************************************************************************)
\* Mutant of SemanticWhere: the threshold clause is left out.
SemanticWhereNoThreshold(source_type) ==
    IF IsSet(source_type) THEN <<Clause("source_type_eq", 3, 0)>> ELSE <<>>

\* where_clauses and params as the handler assembles them.
SemanticWhere(source_type) ==
    LET where_clauses == <<Clause("similarity_ge", 1, 2)>>
        param_idx == 3
    IN  IF IsSet(source_type)
        THEN Append(where_clauses, Clause("source_type_eq", param_idx, 0))
        ELSE where_clauses

SemanticParams(query_embedding, min_similarity, source_type) ==
    LET params == <<query_embedding, min_similarity>>
    IN  IF IsSet(source_type) THEN Append(params, Val(source_type)) ELSE params

SearchResponse(results, query) ==
    [results |-> results, total |-> Len(results), query |-> query]

\* Mutant of ApiSearch: a failed embedding is swallowed and an empty result
\* is returned.
ApiSearchSwallow(fault, query, answers) ==
    IF fault = "embedding" THEN {<<Ok([results |-> <<>>, total |-> 0, query |-> query]), 0>>}
    ELSE IF fault = "store" THEN {<<HTTPException(500, PostgresError), 1>>}
    ELSE {<<Ok([results |-> results, total |-> Len(results), query |-> query]), 1>> :
            results \in answers}

\* The body of the handlers' try block and its except clause: the embedding
\* comes first, then the one store query; any exception becomes a 500 whose
\* detail is the exception's text.  answers: the results the store can give.
\* The set of <<response, number of store queries issued>>.
ApiSearch(fault, query, answers) ==
    IF fault = "embedding" THEN {<<HTTPException(500, EncoderError), 0>>}
    ELSE IF fault = "store" THEN {<<HTTPException(500, PostgresError), 1>>}
    ELSE {<<Ok(SearchResponse(results, query)), 1>> : results \in answers}

semantic_search ==
    /\ pc = "idle"
    /\ \E query \in Queries, source_type \in {None} \cup {Some(t) : t \in SourceTypes},
          limit \in 0..MaxLimit, min_similarity \in {0, 50, 100}, fault \in Faults :
        /\ req' = [op |-> "semantic_search", query |-> query,
                   source_type |-> source_type, limit |-> limit,
                   min_similarity |-> min_similarity, fault |-> fault]
        /\ IF limit < LimitMin \/ limit > LimitMax
           THEN resp' = RequestValidationError /\ queries' = 0
           ELSE LET query_embedding == get_embedding(query)
                    where_clauses == SemanticWhere(source_type)
                    params == SemanticParams(query_embedding, min_similarity,
                                             source_type)
                IN  \E out \in ApiSearch(fault, query,
                            FetchDocuments(docs, where_clauses, params, limit)) :
                        resp' = out[1] /\ queries' = out[2]
    /\ pc' = "done"
    /\ fetch
    /\ UNCHANGED procVars

(***************************************************************************)
(* api/rag-api.py: contextual_search                                       *)
(***************************************************************************)
\* A source_types list is used when it is set and not empty.
Truthy(source_types) == IsSet(source_types) /\ Val(source_types) # {}

\* Mutant of ContextualQuery: a date clause is added as soon as one bound is
\* set (or instead of and), the bound given standing for the missing one.
ContextualQueryHalfRange(query_embedding, context) ==
    LET w0 == <<Clause("similarity_ge", 1, 2)>>
        p0 == <<query_embedding, context.min_similarity>>
        i0 == 3
        hasCustomer == IsSet(context.customer_id)
        w1 == IF hasCustomer THEN Append(w0, Clause("source_id_eq", i0, 0)) ELSE w0
        p1 == IF hasCustomer THEN Append(p0, Val(context.customer_id)) ELSE p0
        i1 == IF hasCustomer THEN i0 + 1 ELSE i0
        hasRange == IsSet(context.start_date) \/ IsSet(context.end_date)
        lo == IF IsSet(context.start_date) THEN context.start_date ELSE context.end_date
        hi == IF IsSet(context.end_date) THEN context.end_date ELSE context.start_date
        w2 == IF hasRange THEN Append(w1, Clause("created_between", i1, i1 + 1)) ELSE w1
        p2 == IF hasRange THEN p1 \o <<Val(lo), Val(hi)>> ELSE p1
        i2 == IF hasRange THEN i1 + 2 ELSE i1
        hasTypes == IsSet(context.source_types) /\ Val(context.source_types) # {}
        w3 == IF hasTypes THEN Append(w2, Clause("source_type_any", i2, 0)) ELSE w2
        p3 == IF hasTypes THEN Append(p2, Val(context.source_types)) ELSE p2
    IN  <<w3, p3>>

\* where_clauses and params as the handler assembles them from the
\* ContextFilter: <<where_clauses, params>>.
ContextualQuery(query_embedding, context) ==
    LET w0 == <<Clause("similarity_ge", 1, 2)>>
        p0 == <<query_embedding, context.min_similarity>>
        i0 == 3
        hasCustomer == IsSet(context.customer_id)
        w1 == IF hasCustomer THEN Append(w0, Clause("source_id_eq", i0, 0)) ELSE w0
        p1 == IF hasCustomer THEN Append(p0, Val(context.customer_id)) ELSE p0
        i1 == IF hasCustomer THEN i0 + 1 ELSE i0
        hasRange == IsSet(context.start_date) /\ IsSet(context.end_date)
        w2 == IF hasRange THEN Append(w1, Clause("created_between", i1, i1 + 1)) ELSE w1
        p2 == IF hasRange
              THEN p1 \o <<Val(context.start_date), Val(context.end_date)>>
              ELSE p1
        i2 == IF hasRange THEN i1 + 2 ELSE i1
        hasTypes == Truthy(context.source_types)
        w3 == IF hasTypes THEN Append(w2, Clause("source_type_any", i2, 0)) ELSE w2
        p3 == IF hasTypes THEN Append(p2, Val(context.source_types)) ELSE p2
    IN  <<w3, p3>>

ContextFilters ==
    [customer_id : {None, Some(1)},
     start_date : {None, Some(1), Some(2)},
     end_date : {None, Some(2)},
     source_types : {None, Some({}), Some({"customer"})},
     min_similarity : {0, 50, 100}]

contextual_search ==
    /\ pc = "idle"
    /\ \E query \in Queries, context \in ContextFilters,
          limit \in 0..MaxLimit, fault \in Faults :
        /\ req' = [op |-> "contextual_search", query |-> query, context |-> context,
                   limit |-> limit, min_similarity |-> context.min_similarity,
                   fault |-> fault]
        /\ IF limit < LimitMin \/ limit > LimitMax
           THEN resp' = RequestValidationError /\ queries' = 0
           ELSE LET query_embedding == get_embedding(query)
                    q == ContextualQuery(query_embedding, context)
                IN  \E out \in ApiSearch(fault, query,
                            FetchDocuments(docs, q[1], q[2], limit)) :
                        resp' = out[1] /\ queries' = out[2]
    /\ pc' = "done"
    /\ fetch
    /\ UNCHANGED procVars

(***************************************************************************)
(* scripts/postgres-loader.py: PostgresRAGLoader.semantic_search and       *)
(* PostgresRAGLoader.contextual_search                                     *)
(***************************************************************************)
\* limit = limit or self.default_search_limit: None and 0 are falsy.
LimitOrDefault(limit) ==
    IF IsSet(limit) /\ Val(limit) # 0 THEN Val(limit) ELSE DefaultSearchLimit

LoaderLimits == {None} \cup {Some(l) : l \in -1..MaxLimit}

\* The store's answer to a query whose LIMIT is the bound parameter $2:
\* PostgreSQL raises "LIMIT must not be negative" when it runs the query.
LoaderFetch(table, where_clauses, params) ==
    IF params[2] < 0
    THEN {Raised(PostgresError)}
    ELSE {[kind |-> "ok", status |-> 0, detail |-> "", body |-> Some(results)] :
            results \in FetchDocuments(table, where_clauses, params, params[2])}

\* The body of the loader's search methods: create_pool, the embedding,
\* limit or default, then the one query; exceptions pass through (finally
\* only closes the pool).  The set of <<result, number of store queries>>.
LoaderSearch(fault, answers) ==
    IF fault = "embedding" THEN {<<Raised(EncoderError), 0>>}
    ELSE IF fault = "store" THEN {<<Raised(PostgresError), 1>>}
    ELSE {<<a, 1>> : a \in answers}

LoaderSemanticWhere(source_type) ==
    IF IsSet(source_type) THEN <<Clause("source_type_eq", 3, 0)>> ELSE <<>>

LoaderSemanticParams(query_embedding, limit, source_type) ==
    LET params == <<query_embedding, limit>>
    IN  IF IsSet(source_type) THEN Append(params, Val(source_type)) ELSE params

loader_semantic_search ==
    /\ pc = "idle"
    /\ \E query \in Queries, source_type \in {None, Some("customer")},
          limit \in LoaderLimits, fault \in Faults :
        /\ req' = [op |-> "loader_semantic_search", query |-> query,
                   source_type |-> source_type, limit |-> limit, fault |-> fault]
        /\ LET query_embedding == get_embedding(query)
               lim == LimitOrDefault(limit)
               where_clause == LoaderSemanticWhere(source_type)
               params == LoaderSemanticParams(query_embedding, lim, source_type)
           IN  \E out \in LoaderSearch(fault, LoaderFetch(docs, where_clause, params)) :
                   resp' = out[1] /\ queries' = out[2]
    /\ pc' = "done"
    /\ fetch
    /\ UNCHANGED procVars

\* Mutant of LoaderContextualQuery: param_idx is not advanced after the
\* customer_id.
LoaderContextualQueryFixedIndex(query_embedding, limit, customer_id, date_range) ==
    LET p0 == <<query_embedding, limit>>
        i0 == 3
        hasCustomer == IsSet(customer_id)
        c1 == IF hasCustomer THEN <<Clause("source_id_eq", i0, 0)>> ELSE <<>>
        p1 == IF hasCustomer THEN Append(p0, Val(customer_id)) ELSE p0
        hasRange == IsSet(date_range)
        c2 == IF hasRange THEN Append(c1, Clause("created_between", i0, i0 + 1)) ELSE c1
        p2 == IF hasRange THEN p1 \o Val(date_range) ELSE p1
    IN  <<c2, p2>>

\* conditions and params: <<conditions, params>>.
LoaderContextualQuery(query_embedding, limit, customer_id, date_range) ==
    LET p0 == <<query_embedding, limit>>
        i0 == 3
        hasCustomer == IsSet(customer_id)
        c1 == IF hasCustomer THEN <<Clause("source_id_eq", i0, 0)>> ELSE <<>>
        p1 == IF hasCustomer THEN Append(p0, Val(customer_id)) ELSE p0
        i1 == IF hasCustomer THEN i0 + 1 ELSE i0
        hasRange == IsSet(date_range)
        c2 == IF hasRange THEN Append(c1, Clause("created_between", i1, i1 + 1)) ELSE c1
        p2 == IF hasRange THEN p1 \o Val(date_range) ELSE p1
    IN  <<c2, p2>>

loader_contextual_search ==
    /\ pc = "idle"
    /\ \E query \in Queries, customer_id \in {None, Some(1)},
          date_range \in {None, Some(<<2, 2>>)},
          limit \in LoaderLimits, fault \in Faults :
        /\ req' = [op |-> "loader_contextual_search", query |-> query,
                   customer_id |-> customer_id, date_range |-> date_range,
                   limit |-> limit, fault |-> fault]
        /\ LET query_embedding == get_embedding(query)
               lim == LimitOrDefault(limit)
               q == LoaderContextualQuery(query_embedding, lim, customer_id,
                                          date_range)
           IN  \E out \in LoaderSearch(fault, LoaderFetch(docs, q[1], q[2])) :
                   resp' = out[1] /\ queries' = out[2]
    /\ pc' = "done"
    /\ fetch
    /\ UNCHANGED procVars

(***************************************************************************)
(* The retrieval service: any document table, then requests one at a time. *)
(***************************************************************************)
\* No pool has been created, no step-by-step operation runs, no generator
\* exists.
PoolOwners == {"config", "local"}
NoPool == [owner \in PoolOwners |-> [state |-> "none", out |-> 0]]
NoRun == [op |-> "none", pc |-> "idle"]
NoGen == <<>>
\* The MongoDB database before any load: every collection is empty.  The
\* entity collections hold the ids of their documents, embeddings holds
\* [source_type, source_id].
NoMongo == [customers |-> <<>>, opportunities |-> <<>>, interactions |-> <<>>,
            embeddings |-> <<>>]

\* No concurrent call runs, and RAGConfig() has just been constructed:
\* self.pool = None.
NoTask == [op |-> "none"]
NoTasks == [t \in Tasks |-> NoTask]
NoConfig == [pool |-> None]

\* The caller takes the response; the service waits for the next request.
Return ==
    /\ pc = "done"
    /\ pc' = "idle"
    /\ req' = NoRequest
    /\ resp' = NoResponse
    /\ queries' = 0
    /\ UNCHANGED <<storeVars, procVars>>

Init ==
    /\ docs \in Tables(DocKinds, MaxDocs)
    /\ interactions = <<>>
    /\ opportunities = <<>>
    /\ customers = <<>>
    /\ sales_people = {}
    /\ pool = NoPool
    /\ run = NoRun
    /\ gen = NoGen
    /\ mongo = NoMongo
    /\ tasks = NoTasks
    /\ pools = <<>>
    /\ config = NoConfig
    /\ pc = "idle"
    /\ req = NoRequest
    /\ resp = NoResponse
    /\ queries = 0

Next ==
    \/ semantic_search
    \/ contextual_search
    \/ loader_semantic_search
    \/ loader_contextual_search
    \/ Return

Spec == Init /\ [][Next]_vars

(***************************************************************************)
(* The interaction and opportunity tables read by the mining endpoints.    *)
(* A row of interactions is [customer_id, type, notes, next_steps,         *)
(* sentiment, topics, created_at]; a row of opportunities is               *)
(* [customer_id, status, value].  Every row's customer exists (foreign     *)
(* keys of the schema).  A row of customers is [industry].                 *)
(***************************************************************************)
\* The customers the rows of the mining tables refer to.
TwoCustomers == <<[industry |-> "Technology"], [industry |-> "Financial"]>>

MaxInteractions == 2
MaxOpportunities == 3

\* Texts in lexical order, and the position of a text in that order.
Texts == <<"a", "b">>
TextRank(t) == CHOOSE i \in DOMAIN Texts : Texts[i] = t

MineInteractionKinds ==
    SetToSeq([customer_id : {1, 2}, type : {"call"}, notes : Range(Texts),
              next_steps : {"x"}, sentiment : {"positive", "negative"},
              topics : {{"pricing"}, {"timeline"}}, created_at : {1}])

MineOpportunityKinds ==
    SetToSeq([customer_id : {1, 2}, status : {"won", "lost", "negotiating"},
              value : {50000}])

\* except Exception as e: raise HTTPException(status_code=500, detail=str(e)).
\* An HTTPException raised inside the try block is an Exception too.
ExceptException(outcome) ==
    IF outcome.kind \in {"raised", "http_error"}
    THEN HTTPException(500, outcome.detail)
    ELSE outcome

ValidationError == "validation error"

(***************************************************************************)
(* api/rag-api-extended-patterns.py: get_objection_handling                *)
(***************************************************************************)
\* FROM interactions i JOIN opportunities o ON i.customer_id = o.customer_id
\* WHERE $1 = ANY(i.topics) AND o.status IN ('won', 'lost'): pairs <<i, o>>.
ObjectionJoin(objection_type) ==
    {<<i, o>> \in (DOMAIN interactions) \X (DOMAIN opportunities) :
        /\ interactions[i].customer_id = opportunities[o].customer_id
        /\ objection_type \in interactions[i].topics
        /\ opportunities[o].status \in {"won", "lost"}}

ObjectionKey(pair) ==
    [notes |-> interactions[pair[1]].notes,
     next_steps |-> interactions[pair[1]].next_steps,
     sentiment |-> interactions[pair[1]].sentiment,
     outcome |-> opportunities[pair[2]].status]

\* The CTE objection_responses: one row per group of GROUP BY notes,
\* next_steps, sentiment, status, with its row count as frequency.
objection_responses(objection_type) ==
    LET joined == ObjectionJoin(objection_type)
        keys == {ObjectionKey(pair) : pair \in joined}
    IN  {[notes |-> k.notes, next_steps |-> k.next_steps, sentiment |-> k.sentiment,
          outcome |-> k.outcome,
          frequency |-> Cardinality({pair \in joined : ObjectionKey(pair) = k})] :
            k \in keys}

\* MODE() WITHIN GROUP (ORDER BY notes) over rows: the notes value carried by
\* most rows, the first in sort order among the most frequent; NULL without
\* rows.
ModeOfNotes(rows) ==
    IF rows = {} THEN None
    ELSE LET count(t) == Cardinality({r \in rows : r.notes = t})
             present == {r.notes : r \in rows}
             best == {t \in present : \A u \in present : count(t) >= count(u)}
         IN  Some(CHOOSE t \in best : \A u \in best : TextRank(t) <= TextRank(u))

\* The one row of the outer SELECT, an aggregate over the CTE's rows without
\* GROUP BY: it exists also when the CTE is empty, its aggregates then NULL.
ObjectionRow(objection_type) ==
    LET rows == objection_responses(objection_type)
        won == {r \in rows : r.outcome = "won"}
    IN  [objection_type |-> objection_type,
         successful_responses |->
            IF won = {} THEN None
            ELSE Some({[response |-> r.notes, next_steps |-> r.next_steps,
                        sentiment |-> r.sentiment] : r \in won}),
         success_rate |->
            IF rows = {} THEN None ELSE Some(<<Cardinality(won), Cardinality(rows)>>),
         recommended_approach |-> ModeOfNotes(won)]

\* pool.fetchrow: the first row of the result, or None when there is none.
FetchObjectionRow(objection_type) == Some(ObjectionRow(objection_type))

\* The ObjectionResponse model built from the fetched row: none of its
\* fields is Optional.
ObjectionResponse(row) ==
    IF \/ ~IsSet(row.successful_responses)
       \/ ~IsSet(row.success_rate)
       \/ ~IsSet(row.recommended_approach)
    THEN Raised(ValidationError)
    ELSE Ok([objection_type |-> row.objection_type,
             successful_responses |-> Val(row.successful_responses),
             success_rate |-> Val(row.success_rate),
             recommended_approach |-> Val(row.recommended_approach)])

ObjectionTypes == {"pricing", "technical"}

get_objection_handling ==
    /\ pc = "idle"
    /\ \E objection_type \in ObjectionTypes, fault \in {"none", "store"} :
        /\ req' = [op |-> "get_objection_handling",
                   objection_type |-> objection_type, fault |-> fault]
        /\ resp' = ExceptException(
                     IF fault = "store" THEN Raised(PostgresError)
                     ELSE LET responses == FetchObjectionRow(objection_type)
                          IN  IF ~IsSet(responses)
                              THEN HTTPException(404, "No data found for objection type")
                              ELSE ObjectionResponse(Val(responses)))
    /\ queries' = 1
    /\ pc' = "done"
    /\ fetch
    /\ UNCHANGED procVars

MineInit ==
    /\ docs = <<>>
    /\ interactions \in Tables(MineInteractionKinds, MaxInteractions)
    /\ opportunities \in Tables(MineOpportunityKinds, MaxOpportunities)
    /\ customers = TwoCustomers
    /\ sales_people = {}
    /\ pool = NoPool
    /\ run = NoRun
    /\ gen = NoGen
    /\ mongo = NoMongo
    /\ tasks = NoTasks
    /\ pools = <<>>
    /\ config = NoConfig
    /\ pc = "idle"
    /\ req = NoRequest
    /\ resp = NoResponse
    /\ queries = 0

MineNext ==
    \/ get_objection_handling
    \/ Return

MineSpec == MineInit /\ [][MineNext]_vars

(***************************************************************************)
(* api/rag-api-extended-patterns.py: get_sales_suggestions                 *)
(***************************************************************************)
MaxSuggestOpportunities == 2

SuggestInteractionKinds ==
    SetToSeq([customer_id : {1, 2}, type : {"call"}, notes : {"a"},
              next_steps : {"", "x"}, sentiment : {"positive", "negative"},
              topics : {{"pricing"}, {"features"}}, created_at : {1}])

SuggestOpportunityKinds ==
    SetToSeq([customer_id : {1, 2}, status : {"won", "negotiating"},
              value : {50000, 100000, 120000}])

\* if context['value'] > 100000
HighValueThreshold == 100000

\* A set of pairs of row ids as a sequence, by opportunity id, then by
\* interaction id.  jsonb_agg fixes no order; only the elements matter.
RECURSIVE PairsInOrder(_)
PairsInOrder(S) ==
    IF S = {} THEN <<>>
    ELSE LET p == CHOOSE x \in S :
                    \A y \in S : x[1] < y[1] \/ (x[1] = y[1] /\ x[2] <= y[2])
         IN  <<p>> \o PairsInOrder(S \ {p})

\* jsonb_agg(DISTINCT jsonb_build_object('type', 'sentiment', 'topics')) over
\* the LEFT JOIN of the opportunity with its customer's interactions: without
\* interactions the join yields one row whose interaction columns are NULL.
RecentInteractions(customer_id) ==
    LET mine == {i \in DOMAIN interactions : interactions[i].customer_id = customer_id}
    IN  IF mine = {}
        THEN {[type |-> None, sentiment |-> None, topics |-> None]}
        ELSE {[type |-> Some(interactions[i].type),
               sentiment |-> Some(interactions[i].sentiment),
               topics |-> Some(interactions[i].topics)] : i \in mine}

\* The subquery similar_successful_deals: won opportunities other than the
\* target, of value within 80% and 120% of the target's, joined with their
\* customer's interactions.  Its LIMIT 5 applies to the one aggregated row.
\* NULL when no pair qualifies.
SimilarSuccessfulDeals(opportunity_id) ==
    LET value == opportunities[opportunity_id].value
        pairs == {<<so, si>> \in (DOMAIN opportunities) \X (DOMAIN interactions) :
                    /\ opportunities[so].customer_id = interactions[si].customer_id
                    /\ opportunities[so].status = "won"
                    /\ so # opportunity_id
                    /\ 10 * opportunities[so].value >= 8 * value
                    /\ 10 * opportunities[so].value <= 12 * value}
        ordered == PairsInOrder(pairs)
    IN  IF pairs = {} THEN None
        ELSE Some([k \in DOMAIN ordered |->
                    [status |-> opportunities[ordered[k][1]].status,
                     value |-> opportunities[ordered[k][1]].value,
                     next_steps |-> interactions[ordered[k][2]].next_steps]])

\* pool.fetchrow of the context query: the opportunity's row, or None when
\* no opportunity has the id.
FetchSuggestionContext(opportunity_id) ==
    IF /\ opportunity_id \in DOMAIN opportunities
       /\ opportunities[opportunity_id].customer_id \in DOMAIN customers
    THEN Some([value |-> opportunities[opportunity_id].value,
               recent_interactions |->
                   RecentInteractions(opportunities[opportunity_id].customer_id),
               similar_successful_deals |-> SimilarSuccessfulDeals(opportunity_id)])
    ELSE None

\* The suggestion logic with the follow-up step keyed on 'positive'.
SuggestionsOnPositive(context) ==
    IF \E i \in context.recent_interactions : ~IsSet(i.topics)
    THEN Raised("TypeError")   \* for topic in i['topics'] with topics None
    ELSE
    LET recent_sentiments == {i.sentiment : i \in context.recent_interactions}
        recent_topics == UNION {Val(i.topics) : i \in context.recent_interactions}
        follow_up == IF Some("positive") \in recent_sentiments
                     THEN <<"Schedule follow-up meeting to address concerns">>
                     ELSE <<>>
        talking_points == IF "pricing" \in recent_topics
                          THEN <<"Emphasize ROI calculations",
                                 "Share relevant case studies",
                                 "Discuss flexible payment options">>
                          ELSE <<>>
        risk_factors == IF context.value > HighValueThreshold
                        THEN <<"High-value deal - ensure executive sponsorship">>
                        ELSE <<>>
        deals == IF IsSet(context.similar_successful_deals)
                 THEN Val(context.similar_successful_deals) ELSE <<>>
        HasSteps(deal) == deal.next_steps # ""
        kept == SelectSeq(deals, HasSteps)
        common_next_steps == [k \in DOMAIN kept |-> kept[k].next_steps]
    IN  Ok([next_steps |-> follow_up \o common_next_steps,
            talking_points |-> talking_points,
            risk_factors |-> risk_factors,
            recommended_content |-> <<>>])

\* The suggestion logic of the handler, from the fetched context.
Suggestions(context) ==
    IF \E i \in context.recent_interactions : ~IsSet(i.topics)
    THEN Raised("TypeError")   \* for topic in i['topics'] with topics None
    ELSE
    LET recent_sentiments == {i.sentiment : i \in context.recent_interactions}
        recent_topics == UNION {Val(i.topics) : i \in context.recent_interactions}
        follow_up == IF Some("negative") \in recent_sentiments
                     THEN <<"Schedule follow-up meeting to address concerns">>
                     ELSE <<>>
        talking_points == IF "pricing" \in recent_topics
                          THEN <<"Emphasize ROI calculations",
                                 "Share relevant case studies",
                                 "Discuss flexible payment options">>
                          ELSE <<>>
        risk_factors == IF context.value > HighValueThreshold
                        THEN <<"High-value deal - ensure executive sponsorship">>
                        ELSE <<>>
        deals == IF IsSet(context.similar_successful_deals)
                 THEN Val(context.similar_successful_deals) ELSE <<>>
        HasSteps(deal) == deal.next_steps # ""
        kept == SelectSeq(deals, HasSteps)
        common_next_steps == [k \in DOMAIN kept |-> kept[k].next_steps]
    IN  Ok([next_steps |-> follow_up \o common_next_steps,
            talking_points |-> talking_points,
            risk_factors |-> risk_factors,
            recommended_content |-> <<>>])

OpportunityIds == 1..(MaxSuggestOpportunities + 1)

get_sales_suggestions ==
    /\ pc = "idle"
    /\ \E opportunity_id \in OpportunityIds, fault \in {"none", "store"} :
        /\ req' = [op |-> "get_sales_suggestions",
                   opportunity_id |-> opportunity_id, fault |-> fault]
        /\ resp' = ExceptException(
                     IF fault = "store" THEN Raised(PostgresError)
                     ELSE LET context == FetchSuggestionContext(opportunity_id)
                          IN  IF ~IsSet(context)
                              THEN HTTPException(404, "Opportunity not found")
                              ELSE Suggestions(Val(context)))
    /\ queries' = 1
    /\ pc' = "done"
    /\ fetch
    /\ UNCHANGED procVars

SuggestInit ==
    /\ docs = <<>>
    /\ interactions \in Tables(SuggestInteractionKinds, MaxInteractions)
    /\ opportunities \in Tables(SuggestOpportunityKinds, MaxSuggestOpportunities)
    /\ customers = TwoCustomers
    /\ sales_people = {}
    /\ pool = NoPool
    /\ run = NoRun
    /\ gen = NoGen
    /\ mongo = NoMongo
    /\ tasks = NoTasks
    /\ pools = <<>>
    /\ config = NoConfig
    /\ pc = "idle"
    /\ req = NoRequest
    /\ resp = NoResponse
    /\ queries = 0

SuggestNext ==
    \/ get_sales_suggestions
    \/ Return

SuggestSpec == SuggestInit /\ [][SuggestNext]_vars

(***************************************************************************)
(* api/rag-api-extended-patterns.py: analyze_competitor_mentions           *)
(* A row of document_embeddings is here [source_type, source_id,           *)
(* embedding, created_at, competitor]: competitor is the value of          *)
(* metadata->>'competitor', None when the key is absent.                   *)
(*                                                                         *)
(* The statement writes the share of a sentiment as a COUNT inside         *)
(* jsonb_object_agg, which PostgreSQL refuses to nest; the model gives the *)
(* statement the reading its text spells out: for each sentiment met in a  *)
(* competitor's mentions, the count of the mentions with that sentiment    *)
(* times 100.0 over the count of the competitor's mentions, rounded to two *)
(* decimals.  Shares are integers in hundredths of a percent.              *)
(***************************************************************************)
MaxMentions == 3

Sentiments == {"positive", "neutral", "negative"}
Competitors == {"acme", "globex"}

\* Query(default=2, ge=1) of min_mentions.
MinMentionsMin == 1

\* The clock of the handlers (datetime.now()): one tick after the latest
\* timestamp of the model.
Now == Cardinality(Times) + 1

CompetitorInteractionKinds ==
    SetToSeq([customer_id : {1}, type : {"call"}, notes : {"a"},
              next_steps : {"x"}, sentiment : Sentiments,
              topics : {{"pricing"}}, created_at : {1}])

CompetitorDocKinds ==
    SetToSeq([source_type : {"interaction"}, source_id : {1, 2, 3},
              embedding : {<<5, 0>>}, created_at : {1},
              competitor : {None} \cup {Some(c) : c \in Competitors}])

\* The rows of the CTE competitor_mentions, each a pair <<e, i>> of a
\* document and the interaction it joins.
competitor_mentions(customer_id, cutoff_date) ==
    {m \in (DOMAIN docs) \X (DOMAIN interactions) :
        /\ docs[m[1]].source_id = m[2]
        /\ interactions[m[2]].customer_id = customer_id
        /\ interactions[m[2]].created_at >= cutoff_date
        /\ IsSet(docs[m[1]].competitor)}

\* ROUND(count * 100.0 / total, 2) on numerics (half away from zero), in
\* hundredths of a percent.
RoundedShare(count, total) == (2 * 10000 * count + total) \div (2 * total)

\* GROUP BY competitor_name: the mentions of one competitor.
MentionsOf(mentions, name) == {m \in mentions : Val(docs[m[1]].competitor) = name}

\* The row of the outer SELECT for one competitor.
CompetitorRow(mentions, name) ==
    LET group == MentionsOf(mentions, name)
        WithSentiment(s) == {m \in group : interactions[m[2]].sentiment = s}
        present == {interactions[m[2]].sentiment : m \in group}
    IN  [competitor_name |-> name,
         mention_count |-> Cardinality(group),
         context |-> group,
         sentiment_distribution |->
             [s \in present |->
                 RoundedShare(Cardinality(WithSentiment(s)), Cardinality(group))]]

\* Mutant of FetchCompetitorAnalysis: the HAVING clause is missing.
FetchCompetitorAnalysisNoHaving(customer_id, cutoff_date, min_mentions) ==
    LET mentions == competitor_mentions(customer_id, cutoff_date)
        names == {Val(docs[m[1]].competitor) : m \in mentions}
        Count(n) == Cardinality(MentionsOf(mentions, n))
        ordered == {p \in Perms(names) :
                      \A i, j \in DOMAIN p : i < j => Count(p[i]) >= Count(p[j])}
    IN  {[k \in DOMAIN p |-> CompetitorRow(mentions, p[k])] : p \in ordered}

\* pool.fetch of the analysis query: the answers the store can give.  GROUP
\* BY competitor_name HAVING COUNT >= $3 ORDER BY mention_count DESC, the
\* order of competitors with equal counts being the store's choice.
FetchCompetitorAnalysis(customer_id, cutoff_date, min_mentions) ==
    LET mentions == competitor_mentions(customer_id, cutoff_date)
        names == {Val(docs[m[1]].competitor) : m \in mentions}
        Count(n) == Cardinality(MentionsOf(mentions, n))
        having == {n \in names : Count(n) >= min_mentions}
        ordered == {p \in Perms(having) :
                      \A i, j \in DOMAIN p : i < j => Count(p[i]) >= Count(p[j])}
    IN  {[k \in DOMAIN p |-> CompetitorRow(mentions, p[k])] : p \in ordered}

analyze_competitor_mentions ==
    /\ pc = "idle"
    /\ \E customer_id \in {1, 2}, days \in {1, 2}, min_mentions \in 0..2,
          fault \in {"none", "store"} :
        /\ req' = [op |-> "analyze_competitor_mentions",
                   customer_id |-> customer_id, days |-> days,
                   min_mentions |-> min_mentions, fault |-> fault]
        /\ IF min_mentions < MinMentionsMin
           THEN resp' = RequestValidationError /\ queries' = 0
           ELSE LET cutoff_date == Now - days
                IN  /\ \E competitor_analysis \in
                            FetchCompetitorAnalysis(customer_id, cutoff_date,
                                                    min_mentions) :
                          resp' = ExceptException(
                                    IF fault = "store" THEN Raised(PostgresError)
                                    ELSE Ok(competitor_analysis))
                    /\ queries' = 1
    /\ pc' = "done"
    /\ fetch
    /\ UNCHANGED procVars

CompetitorInit ==
    /\ docs \in Tables(CompetitorDocKinds, MaxMentions)
    /\ interactions \in Tables(CompetitorInteractionKinds, MaxMentions)
    /\ opportunities = <<>>
    /\ customers = TwoCustomers
    /\ sales_people = {}
    /\ pool = NoPool
    /\ run = NoRun
    /\ gen = NoGen
    /\ mongo = NoMongo
    /\ tasks = NoTasks
    /\ pools = <<>>
    /\ config = NoConfig
    /\ pc = "idle"
    /\ req = NoRequest
    /\ resp = NoResponse
    /\ queries = 0

CompetitorNext ==
    \/ analyze_competitor_mentions
    \/ Return

CompetitorSpec == CompetitorInit /\ [][CompetitorNext]_vars

(***************************************************************************)
(* Operations step by step: connections, failures and waits.               *)
(*                                                                         *)
(* load_data and semantic_search of PostgresRAGLoader and semantic_search  *)
(* of api/rag-api.py, cut at their awaits.  run holds the operation in     *)
(* progress: its name, its position pc, the number held of connections it  *)
(* holds through enclosing `async with pool.acquire()` blocks, and env,    *)
(* which is "stalled" once the service it awaits has stopped answering.    *)
(* pool maps an owner to a pool [state, out]: "config" is RAGConfig.pool   *)
(* of the API, "local" the variable pool of a loader method; out counts    *)
(* the connections checked out.  Tables are maps from row id to row.       *)
(***************************************************************************)
\* asyncpg.create_pool(...).
CreatePool(p, owner) == [p EXCEPT ![owner] = [state |-> "open", out |-> 0]]

\* pool.acquire(): entering `async with pool.acquire() as conn`.
Acquire(p, owner) == [p EXCEPT ![owner].out = @ + 1]

\* Mutant of Release: the connection goes back only when the block ends
\* without an exception.
ReleaseUnlessRaised(p, owner, raised) ==
    IF raised THEN p ELSE [p EXCEPT ![owner].out = @ - 1]

\* Leaving `async with pool.acquire() as conn` (and the same block inside
\* pool.fetch): the connection goes back whether the block raised or not.
Release(p, owner, raised) == [p EXCEPT ![owner].out = @ - 1]

\* An exception leaves the held enclosing `async with` blocks.
RECURSIVE Unwind(_, _, _)
Unwind(p, owner, held) ==
    IF held = 0 THEN p ELSE Unwind(Release(p, owner, TRUE), owner, held - 1)

\* finally: if pool: await pool.close().
ClosePool(p, owner) ==
    IF p[owner].state = "open" THEN [p EXCEPT ![owner].state = "closed"] ELSE p

\* What an awaited service does: it answers, it raises, or (action Stall)
\* it never answers.
Answers == {"ok", "raise"}

UniqueViolation == "unique violation"
ForeignKeyViolation == "foreign key violation"

\* The datasets handed to load_data: customers first, then interactions;
\* ids are unique within a dataset (uuid4 in the generator).
DatasetCustomers ==
    <<[id |-> 1, industry |-> "Technology"], [id |-> 2, industry |-> "Financial"]>>
DatasetInteractions ==
    <<[id |-> 1, customerId |-> 1, salesPersonId |-> 1, type |-> "call",
       notes |-> "a", sentiment |-> "positive", topics |-> {"pricing"}],
      [id |-> 2, customerId |-> 2, salesPersonId |-> 1, type |-> "call",
       notes |-> "b", sentiment |-> "negative", topics |-> {"timeline"}]>>
Datasets ==
    {[customers |-> SubSeq(DatasetCustomers, 1, n),
      interactions |-> SubSeq(DatasetInteractions, 1, m)] :
        n \in 1..Len(DatasetCustomers), m \in 0..Len(DatasetInteractions)}

Ended == {"returned", "raised"}

\* Mutant of Insert: INSERT ... ON CONFLICT DO NOTHING.
InsertOrIgnore(table, id, row) ==
    IF id \in DOMAIN table THEN Some(table) ELSE Some(table @@ (id :> row))

\* INSERT of a row under a primary key: the new table, or None when the
\* key is taken (the statement raises a unique violation).
Insert(table, id, row) ==
    IF id \in DOMAIN table THEN None ELSE Some(table @@ (id :> row))

\* A loader method ends by an exception raised while it holds held
\* connections of pool p: the enclosing `async with` blocks release them on
\* the way out and the finally clause closes the pool.
RaiseFrom(exc, p, held) ==
    /\ run' = [run EXCEPT !.pc = "raised", !.held = 0]
    /\ resp' = Raised(exc)
    /\ pool' = ClosePool(Unwind(p, "local", held), "local")

\* The position after entity k of the dataset's list has been stored.
AfterCustomer(dataset, k) ==
    IF k < Len(dataset.customers) THEN "customer"
    ELSE IF Len(dataset.interactions) > 0 THEN "interaction" ELSE "release"
AfterInteraction(dataset, k) ==
    IF k < Len(dataset.interactions) THEN "interaction" ELSE "release"

\* The awaited service stops answering: the operation waits at its await.
Stall ==
    /\ run.op # "none"
    /\ run.pc \notin Ended
    /\ run.env = "ok"
    /\ run' = [run EXCEPT !.env = "stalled"]
    /\ UNCHANGED <<storeVars, pc, req, resp, queries, taskVars, pool, gen, mongo>>

\* The caller takes the result or the exception of the ended operation.
RunReturn ==
    /\ run.op # "none"
    /\ run.pc \in Ended
    /\ run' = NoRun
    /\ resp' = NoResponse
    /\ UNCHANGED <<storeVars, pc, req, queries, taskVars, pool, gen, mongo>>

(***************************************************************************)
(* scripts/postgres-loader.py: load_data                                   *)
(***************************************************************************)
\* pool = None; pool = await asyncpg.create_pool(self.db_url).  When it
\* raises, pool is still None and the finally clause closes nothing.
load_data_create_pool ==
    /\ run = NoRun
    /\ \E dataset \in Datasets, answer \in Answers :
        LET r == [op |-> "load_data", pc |-> "init_db", dataset |-> dataset,
                  k |-> 1, held |-> 0, env |-> "ok"]
        IN  IF answer = "ok"
            THEN /\ run' = r
                 /\ pool' = CreatePool(pool, "local")
                 /\ resp' = NoResponse
            ELSE /\ run' = [r EXCEPT !.pc = "raised"]
                 /\ pool' = [pool EXCEPT !["local"] = NoPool["local"]]
                 /\ resp' = Raised(PostgresError)
    /\ UNCHANGED <<storeVars, pc, req, queries, taskVars, gen, mongo>>

\* await self.init_db(pool): its own `async with pool.acquire()` around the
\* CREATE ... IF NOT EXISTS statements.
load_data_init_db ==
    /\ run.op = "load_data" /\ run.pc = "init_db" /\ run.env = "ok"
    /\ \E answer \in Answers :
        IF answer = "ok"
        THEN /\ run' = [run EXCEPT !.pc = "acquire"]
             /\ pool' = Release(Acquire(pool, "local"), "local", FALSE)
             /\ resp' = resp
        ELSE RaiseFrom(PostgresError, Acquire(pool, "local"), 1)
    /\ UNCHANGED <<storeVars, pc, req, queries, taskVars, gen, mongo>>

\* async with pool.acquire() as conn: the connection of the INSERTs.
load_data_acquire ==
    /\ run.op = "load_data" /\ run.pc = "acquire" /\ run.env = "ok"
    /\ \E answer \in Answers :
        IF answer = "ok"
        THEN /\ run' = [run EXCEPT !.pc = AfterCustomer(run.dataset, 0),
                                   !.k = 1, !.held = 1]
             /\ pool' = Acquire(pool, "local")
             /\ resp' = resp
        ELSE RaiseFrom(PostgresError, pool, 0)
    /\ UNCHANGED <<storeVars, pc, req, queries, taskVars, gen, mongo>>

\* INSERT INTO customers (id, ...) of the customer at position k.
load_data_insert_customer ==
    /\ run.op = "load_data" /\ run.pc = "customer" /\ run.env = "ok"
    /\ LET customer == run.dataset.customers[run.k]
           inserted == Insert(customers, customer.id,
                              [industry |-> customer.industry])
       IN  \E answer \in Answers :
            IF answer = "raise"
            THEN RaiseFrom(PostgresError, pool, run.held) /\ UNCHANGED customers
            ELSE IF ~IsSet(inserted)
            THEN RaiseFrom(UniqueViolation, pool, run.held) /\ UNCHANGED customers
            ELSE /\ customers' = Val(inserted)
                 /\ run' = [run EXCEPT !.pc = "customer_doc"]
                 /\ UNCHANGED <<resp, pool>>
    /\ UNCHANGED <<docs, interactions, opportunities, sales_people,
                   pc, req, queries, taskVars, gen, mongo>>

\* store_document_with_embedding: the embedding first, then the INSERT with
\* a fresh id (gen_random_uuid) through a connection of its own.  next is
\* the caller's position after the call.
store_document_with_embedding(source_type, source_id, content, next) ==
    \E answer \in {"ok", "raise_embedding", "raise_insert"} :
        IF answer = "raise_embedding"
        THEN RaiseFrom(EncoderError, pool, run.held) /\ UNCHANGED docs
        ELSE IF answer = "raise_insert"
        THEN /\ RaiseFrom(PostgresError, Acquire(pool, "local"), run.held + 1)
             /\ UNCHANGED docs
        ELSE /\ docs' = Append(docs, [source_type |-> source_type,
                                      source_id |-> source_id,
                                      embedding |-> get_embedding(content),
                                      created_at |-> Now])
             /\ pool' = Release(Acquire(pool, "local"), "local", FALSE)
             /\ run' = next
             /\ resp' = resp

\* The document of the customer just inserted.
load_data_store_customer_document ==
    /\ run.op = "load_data" /\ run.pc = "customer_doc" /\ run.env = "ok"
    /\ LET customer == run.dataset.customers[run.k]
           last == run.k = Len(run.dataset.customers)
       IN  store_document_with_embedding(
               "customer", customer.id, customer.industry,
               [run EXCEPT !.pc = AfterCustomer(run.dataset, run.k),
                           !.k = IF last THEN 1 ELSE run.k + 1])
    /\ UNCHANGED <<interactions, opportunities, customers, sales_people,
                   pc, req, queries, taskVars, gen, mongo>>

\* INSERT INTO interactions (id, customer_id, sales_person_id, ...) of the
\* interaction at position k: the table's primary key and its two foreign
\* keys are checked by the store.
load_data_insert_interaction ==
    /\ run.op = "load_data" /\ run.pc = "interaction" /\ run.env = "ok"
    /\ LET interaction == run.dataset.interactions[run.k]
           inserted == Insert(interactions, interaction.id,
                              [customer_id |-> interaction.customerId,
                               sales_person_id |-> interaction.salesPersonId,
                               type |-> interaction.type,
                               notes |-> interaction.notes,
                               sentiment |-> interaction.sentiment,
                               topics |-> interaction.topics,
                               created_at |-> Now])
       IN  \E answer \in Answers :
            IF answer = "raise"
            THEN RaiseFrom(PostgresError, pool, run.held) /\ UNCHANGED interactions
            ELSE IF ~IsSet(inserted)
            THEN RaiseFrom(UniqueViolation, pool, run.held) /\ UNCHANGED interactions
            ELSE IF \/ interaction.customerId \notin DOMAIN customers
                    \/ interaction.salesPersonId \notin sales_people
            THEN /\ RaiseFrom(ForeignKeyViolation, pool, run.held)
                 /\ UNCHANGED interactions
            ELSE /\ interactions' = Val(inserted)
                 /\ run' = [run EXCEPT !.pc = "interaction_doc"]
                 /\ UNCHANGED <<resp, pool>>
    /\ UNCHANGED <<docs, opportunities, customers, sales_people,
                   pc, req, queries, taskVars, gen, mongo>>

\* The document of the interaction just inserted.
load_data_store_interaction_document ==
    /\ run.op = "load_data" /\ run.pc = "interaction_doc" /\ run.env = "ok"
    /\ LET interaction == run.dataset.interactions[run.k]
       IN  store_document_with_embedding(
               "interaction", interaction.id, interaction.notes,
               [run EXCEPT !.pc = AfterInteraction(run.dataset, run.k),
                           !.k = run.k + 1])
    /\ UNCHANGED <<interactions, opportunities, customers, sales_people,
                   pc, req, queries, taskVars, gen, mongo>>

\* The end of the `async with` block, then finally: await pool.close().
load_data_return ==
    /\ run.op = "load_data" /\ run.pc = "release" /\ run.env = "ok"
    /\ run' = [run EXCEPT !.pc = "returned", !.held = 0]
    /\ pool' = ClosePool(Release(pool, "local", FALSE), "local")
    /\ resp' = Ok(<<>>)
    /\ UNCHANGED <<storeVars, pc, req, queries, taskVars, gen, mongo>>

(***************************************************************************)
(* scripts/postgres-loader.py: semantic_search, step by step               *)
(***************************************************************************)
loader_search_create_pool ==
    /\ run = NoRun
    /\ \E query \in Queries, answer \in Answers :
        LET r == [op |-> "loader_semantic_search", pc |-> "embedding",
                  query |-> query, held |-> 0, env |-> "ok"]
        IN  IF answer = "ok"
            THEN /\ run' = r
                 /\ pool' = CreatePool(pool, "local")
                 /\ resp' = NoResponse
            ELSE /\ run' = [r EXCEPT !.pc = "raised"]
                 /\ pool' = [pool EXCEPT !["local"] = NoPool["local"]]
                 /\ resp' = Raised(PostgresError)
    /\ UNCHANGED <<storeVars, pc, req, queries, taskVars, gen, mongo>>

\* query_embedding = await self.generate_embedding(query).
loader_search_embedding ==
    /\ run.op = "loader_semantic_search" /\ run.pc = "embedding" /\ run.env = "ok"
    /\ \E answer \in Answers :
        IF answer = "ok"
        THEN run' = [run EXCEPT !.pc = "acquire"] /\ UNCHANGED <<resp, pool>>
        ELSE RaiseFrom(EncoderError, pool, run.held)
    /\ UNCHANGED <<storeVars, pc, req, queries, taskVars, gen, mongo>>

loader_search_acquire ==
    /\ run.op = "loader_semantic_search" /\ run.pc = "acquire" /\ run.env = "ok"
    /\ \E answer \in Answers :
        IF answer = "ok"
        THEN /\ run' = [run EXCEPT !.pc = "fetch", !.held = 1]
             /\ pool' = Acquire(pool, "local")
             /\ resp' = resp
        ELSE RaiseFrom(PostgresError, pool, run.held)
    /\ UNCHANGED <<storeVars, pc, req, queries, taskVars, gen, mongo>>

\* results = await conn.fetch(...); return; the block and finally on the
\* way out.
loader_search_fetch ==
    /\ run.op = "loader_semantic_search" /\ run.pc = "fetch" /\ run.env = "ok"
    /\ \E answer \in Answers :
        IF answer = "raise"
        THEN RaiseFrom(PostgresError, pool, run.held)
        ELSE LET params == LoaderSemanticParams(get_embedding(run.query),
                                                LimitOrDefault(None), None)
             IN  /\ \E a \in LoaderFetch(docs, LoaderSemanticWhere(None), params) :
                        resp' = a
                 /\ run' = [run EXCEPT !.pc = "returned", !.held = 0]
                 /\ pool' = ClosePool(Release(pool, "local", FALSE), "local")
    /\ UNCHANGED <<storeVars, pc, req, queries, taskVars, gen, mongo>>

(***************************************************************************)
(* api/rag-api.py: semantic_search, step by step                           *)
(***************************************************************************)
\* Query(default=5, ...) of limit and Query(default=0.5, ...) of
\* min_similarity: the values of a request that names neither.
DefaultApiLimit == 5
DefaultMinSimilarity == 50

\* Depends(get_db): RAGConfig.get_pool creates the pool when there is none.
api_search_get_db ==
    /\ run = NoRun
    /\ \E query \in Queries, answer \in Answers :
        LET r == [op |-> "semantic_search", pc |-> "embedding",
                  query |-> query, held |-> 0, env |-> "ok"]
        IN  IF pool["config"].state = "open"
            THEN run' = r /\ resp' = NoResponse /\ pool' = pool
            ELSE IF answer = "ok"
            THEN /\ run' = r
                 /\ pool' = CreatePool(pool, "config")
                 /\ resp' = NoResponse
            ELSE /\ run' = [r EXCEPT !.pc = "raised"]
                 /\ pool' = pool
                 /\ resp' = HTTPException(500, PostgresError)
    /\ UNCHANGED <<storeVars, pc, req, queries, taskVars, gen, mongo>>

\* query_embedding = await config.get_embedding(query), inside try.
api_search_embedding ==
    /\ run.op = "semantic_search" /\ run.pc = "embedding" /\ run.env = "ok"
    /\ \E answer \in Answers :
        IF answer = "ok"
        THEN run' = [run EXCEPT !.pc = "fetch"] /\ resp' = resp
        ELSE /\ run' = [run EXCEPT !.pc = "raised"]
             /\ resp' = ExceptException(Raised(EncoderError))
    /\ UNCHANGED <<storeVars, pc, req, queries, taskVars, pool, gen, mongo>>

\* results = await pool.fetch(...): the pool takes a connection for the
\* statement and takes it back; then the response or the except clause.
api_search_fetch ==
    /\ run.op = "semantic_search" /\ run.pc = "fetch" /\ run.env = "ok"
    /\ \E answer \in Answers :
        IF answer = "raise"
        THEN /\ run' = [run EXCEPT !.pc = "raised"]
             /\ resp' = ExceptException(Raised(PostgresError))
             /\ pool' = Release(Acquire(pool, "config"), "config", TRUE)
        ELSE LET params == SemanticParams(get_embedding(run.query),
                                           DefaultMinSimilarity, None)
             IN  /\ \E results \in FetchDocuments(docs, SemanticWhere(None),
                                                 params, DefaultApiLimit) :
                        resp' = Ok(SearchResponse(results, run.query))
                 /\ run' = [run EXCEPT !.pc = "returned"]
                 /\ pool' = Release(Acquire(pool, "config"), "config", FALSE)
    /\ UNCHANGED <<storeVars, pc, req, queries, taskVars, gen, mongo>>

(***************************************************************************)
(* scripts/mongodb-loader.py: SalesDataLoader.load_data                    *)
(* Collection names and source types are spelled letter by letter, so that *)
(* rstrip works on them as it does in Python.  The collections salesPeople *)
(* and products, which get no embedding, are left out.                     *)
(***************************************************************************)
Spell ==
    [customers |-> <<"c", "u", "s", "t", "o", "m", "e", "r", "s">>,
     opportunities |-> <<"o", "p", "p", "o", "r", "t", "u", "n", "i", "t", "i",
                         "e", "s">>,
     interactions |-> <<"i", "n", "t", "e", "r", "a", "c", "t", "i", "o", "n",
                        "s">>,
     customer |-> <<"c", "u", "s", "t", "o", "m", "e", "r">>,
     opportunity |-> <<"o", "p", "p", "o", "r", "t", "u", "n", "i", "t", "y">>,
     interaction |-> <<"i", "n", "t", "e", "r", "a", "c", "t", "i", "o", "n">>]

PyMongoError == "mongo failed"

\* str.rstrip(chars): every trailing character that is in chars goes.
RECURSIVE rstrip(_, _)
rstrip(s, chars) ==
    IF Len(s) > 0 /\ s[Len(s)] \in chars
    THEN rstrip(SubSeq(s, 1, Len(s) - 1), chars)
    ELSE s

\* The keys of the dataset in the order generate_dataset builds them.
MongoCollectionOrder == <<"customers", "opportunities", "interactions">>

\* A document of the dataset is [id, text]: text stands for the fields that
\* the branch of its own type joins into text_content.
MongoDatasets ==
    {[customers |-> SubSeq(<<[id |-> 1, text |-> "Acme Technology"],
                             [id |-> 2, text |-> "Globex Financial"]>>, 1, n),
      opportunities |-> SubSeq(<<[id |-> 1, text |-> "None None"]>>, 1, m),
      interactions |-> SubSeq(<<[id |-> 1, text |-> "a pricing"]>>, 1, l)] :
        n \in 1..2, m \in 0..1, l \in 0..1}

\* generate_and_store_embeddings: the text of the document by source type;
\* a source type that has no branch leaves it empty.
TextContent(document, source_type) ==
    IF source_type = Spell.interaction THEN document.text
    ELSE IF source_type = Spell.opportunity THEN document.text
    ELSE IF source_type = Spell.customer THEN document.text
    ELSE ""

\* The position of load_data after document k of collection c: the next
\* document, else the next collection of the dataset, else the end.
MongoAfter(dataset, c, k) ==
    IF k < Len(dataset[MongoCollectionOrder[c]])
    THEN [pc |-> "embed", c |-> c, k |-> k + 1]
    ELSE IF c < Len(MongoCollectionOrder)
    THEN [pc |-> "insert_many", c |-> c + 1, k |-> 1]
    ELSE [pc |-> "returned", c |-> c, k |-> k]

\* An exception ends load_data where it is: it has no handler.
MongoRaise(exc) ==
    /\ run' = [run EXCEPT !.pc = "raised"]
    /\ resp' = Raised(exc)

\* await asyncio.gather of delete_many on every collection.
mongo_load_data_clear ==
    /\ run = NoRun
    /\ \E dataset \in MongoDatasets, answer \in Answers :
        LET r == [op |-> "mongo_load_data", pc |-> "create_indexes",
                  dataset |-> dataset, c |-> 1, k |-> 1, held |-> 0,
                  env |-> "ok"]
        IN  IF answer = "ok"
            THEN run' = r /\ resp' = NoResponse /\ mongo' = NoMongo
            ELSE /\ run' = [r EXCEPT !.pc = "raised"]
                 /\ resp' = Raised(PyMongoError)
                 /\ mongo' \in {mongo, NoMongo}
    /\ UNCHANGED <<storeVars, pc, req, queries, taskVars, pool, gen>>

\* await self.create_indexes().
mongo_load_data_create_indexes ==
    /\ run.op = "mongo_load_data" /\ run.pc = "create_indexes" /\ run.env = "ok"
    /\ \E answer \in Answers :
        IF answer = "ok"
        THEN run' = [run EXCEPT !.pc = "insert_many"] /\ resp' = resp
        ELSE MongoRaise(PyMongoError)
    /\ UNCHANGED <<storeVars, pc, req, queries, taskVars, pool, gen, mongo>>

\* if data: await self.collections[collection_name].insert_many(data).
mongo_load_data_insert_many ==
    /\ run.op = "mongo_load_data" /\ run.pc = "insert_many" /\ run.env = "ok"
    /\ LET collection_name == MongoCollectionOrder[run.c]
           data == run.dataset[collection_name]
           after == MongoAfter(run.dataset, run.c, Len(data))
       IN  IF Len(data) = 0
           THEN /\ run' = [run EXCEPT !.pc = after.pc, !.c = after.c, !.k = after.k]
                /\ resp' = IF after.pc = "returned" THEN Ok(<<>>) ELSE resp
                /\ mongo' = mongo
           ELSE \E answer \in Answers :
                IF answer = "ok"
                THEN /\ mongo' = [mongo EXCEPT ![collection_name] =
                                    @ \o [i \in DOMAIN data |-> data[i].id]]
                     /\ run' = [run EXCEPT !.pc = "embed", !.k = 1]
                     /\ resp' = resp
                ELSE MongoRaise(PyMongoError) /\ mongo' = mongo
    /\ UNCHANGED <<storeVars, pc, req, queries, taskVars, pool, gen>>

\* await self.generate_and_store_embeddings(document,
\* collection_name.rstrip('s'), document['id']).
mongo_load_data_embed ==
    /\ run.op = "mongo_load_data" /\ run.pc = "embed" /\ run.env = "ok"
    /\ LET collection_name == MongoCollectionOrder[run.c]
           document == run.dataset[collection_name][run.k]
           source_type == rstrip(Spell[collection_name], {"s"})
           text_content == TextContent(document, source_type)
           after == MongoAfter(run.dataset, run.c, run.k)
           next == [run EXCEPT !.pc = after.pc, !.c = after.c, !.k = after.k]
           done == IF after.pc = "returned" THEN Ok(<<>>) ELSE resp
       IN  IF text_content = ""
           THEN run' = next /\ resp' = done /\ mongo' = mongo
           ELSE \E answer \in {"ok", "raise_embedding", "raise_insert"} :
                IF answer = "raise_embedding"
                THEN MongoRaise(EncoderError) /\ mongo' = mongo
                ELSE IF answer = "raise_insert"
                THEN MongoRaise(PyMongoError) /\ mongo' = mongo
                ELSE /\ mongo' = [mongo EXCEPT !.embeddings =
                                    Append(@, [source_type |-> source_type,
                                               source_id |-> document.id])]
                     /\ run' = next
                     /\ resp' = done
    /\ UNCHANGED <<storeVars, pc, req, queries, taskVars, pool, gen>>

RunInit ==
    /\ docs = <<>>
    /\ interactions = <<>>
    /\ opportunities = <<>>
    /\ customers = <<>>
    /\ sales_people \in {{}, {1}}
    /\ pool = NoPool
    /\ run = NoRun
    /\ gen = NoGen
    /\ mongo = NoMongo
    /\ tasks = NoTasks
    /\ pools = <<>>
    /\ config = NoConfig
    /\ pc = "idle"
    /\ req = NoRequest
    /\ resp = NoResponse
    /\ queries = 0

RunNext ==
    \/ load_data_create_pool
    \/ load_data_init_db
    \/ load_data_acquire
    \/ load_data_insert_customer
    \/ load_data_store_customer_document
    \/ load_data_insert_interaction
    \/ load_data_store_interaction_document
    \/ load_data_return
    \/ loader_search_create_pool
    \/ loader_search_embedding
    \/ loader_search_acquire
    \/ loader_search_fetch
    \/ api_search_get_db
    \/ api_search_embedding
    \/ api_search_fetch
    \/ mongo_load_data_clear
    \/ mongo_load_data_create_indexes
    \/ mongo_load_data_insert_many
    \/ mongo_load_data_embed
    \/ Stall
    \/ RunReturn

RunSpec == RunInit /\ [][RunNext]_vars

(***************************************************************************)
(* scripts/data_generator.py: SalesDataGenerator, and scripts/cli.py       *)
(*                                                                         *)
(* gen holds the sources of the generated values and what was generated:   *)
(* random, the state [stream, pos] of the generator of module random,      *)
(* which every instance of the process shares; clock, what datetime.now()  *)
(* returns; instances, the SalesDataGenerator objects made so far, each    *)
(* [seed, products, dataset].  A dataset is cut down to one interaction    *)
(* [id, type, timestamp] and the catalog to one product [id, price]: one   *)
(* value for each source (uuid4, random, datetime.now).                    *)
(***************************************************************************)
MaxSeed == 2
MaxClock == 3

\* The values of --seed: an integer, or None when the option is absent.
Seeds == {None} \cup {Some(s) : s \in 0..MaxSeed}

\* The streams the operating system's entropy can start random with.
EntropyStreams == {MaxSeed + 1, MaxSeed + 2}

\* uuid.uuid4() draws from the operating system's entropy, whatever the
\* seed: any value can come out.
Uuids == {"u1", "u2"}

\* The value at position pos of the stream.
Draw(stream, pos) == (stream + 2 * pos) % 3

\* if seed: the seed is used when it is set and not zero.
Seeded(seed) == IsSet(seed) /\ Val(seed) # 0

\* random.seed(seed).
SeedRandom(seed) == [stream |-> seed, pos |-> 0]

\* SalesDataGenerator(seed): the seeding, then _generate_product_catalog,
\* which takes an id from uuid4 and a price from random.
NewGenerator ==
    /\ gen # NoGen
    /\ Len(gen.instances) < 2
    /\ \E seed \in Seeds, id \in Uuids :
        LET r == IF Seeded(seed) THEN SeedRandom(Val(seed)) ELSE gen.random
            products == [id |-> id, price |-> Draw(r.stream, r.pos)]
        IN  gen' = [gen EXCEPT
                      !.random = [r EXCEPT !.pos = @ + 1],
                      !.instances = Append(@, [seed |-> seed,
                                               products |-> products,
                                               dataset |-> None])]
    /\ UNCHANGED <<storeVars, pc, req, resp, queries, taskVars, pool, run, mongo>>

\* generate_dataset of the instance g: generate_interaction takes the days
\* of its timestamp and its type from random, its id from uuid4 and the
\* present time from datetime.now().
generate_dataset ==
    /\ gen # NoGen
    /\ \E g \in DOMAIN gen.instances, id \in Uuids :
        /\ ~IsSet(gen.instances[g].dataset)
        /\ LET r == gen.random
               days == Draw(r.stream, r.pos)
               type == Draw(r.stream, r.pos + 1)
               interaction == [id |-> id, type |-> type,
                               timestamp |-> gen.clock - days]
           IN  gen' = [gen EXCEPT
                         !.random = [r EXCEPT !.pos = @ + 2],
                         !.instances[g].dataset = Some(interaction)]
    /\ UNCHANGED <<storeVars, pc, req, resp, queries, taskVars, pool, run, mongo>>

\* Time passes.
Tick ==
    /\ gen # NoGen
    /\ gen.clock < MaxClock
    /\ gen' = [gen EXCEPT !.clock = @ + 1]
    /\ UNCHANGED <<storeVars, pc, req, resp, queries, taskVars, pool, run, mongo>>

\* The next generator is made by a new process (another run of cli.py):
\* module random starts from the system's entropy again.
NewProcess ==
    /\ gen # NoGen
    /\ Len(gen.instances) = 1
    /\ \E e \in EntropyStreams :
        gen' = [gen EXCEPT !.random = [stream |-> e, pos |-> 0]]
    /\ UNCHANGED <<storeVars, pc, req, resp, queries, taskVars, pool, run, mongo>>

GenInit ==
    /\ docs = <<>>
    /\ interactions = <<>>
    /\ opportunities = <<>>
    /\ customers = <<>>
    /\ sales_people = {}
    /\ pool = NoPool
    /\ run = NoRun
    /\ mongo = NoMongo
    /\ tasks = NoTasks
    /\ pools = <<>>
    /\ config = NoConfig
    /\ \E e \in EntropyStreams :
        gen = [random |-> [stream |-> e, pos |-> 0], clock |-> 1,
               instances |-> <<>>]
    /\ pc = "idle"
    /\ req = NoRequest
    /\ resp = NoResponse
    /\ queries = 0

GenNext ==
    \/ NewGenerator
    \/ generate_dataset
    \/ Tick
    \/ NewProcess

GenSpec == GenInit /\ [][GenNext]_vars

(***************************************************************************)
(* api/rag-api-extended-patterns.py: get_successful_patterns               *)
(* min_success_rate is a percentage (60 = 0.6).                            *)
(***************************************************************************)
PatternInteractionKinds ==
    SetToSeq([customer_id : {1, 2}, type : {"call", "email"}, notes : {"a"},
              next_steps : {"x"}, sentiment : {"positive", "negative"},
              topics : {{"pricing"}}, created_at : {1}])

PatternOpportunityKinds ==
    SetToSeq([customer_id : {1, 2}, status : {"won", "lost"}, value : {50000}])

\* FROM interactions i JOIN opportunities o ON i.customer_id = o.customer_id
\* JOIN customers c ON i.customer_id = c.id
\* WHERE c.industry = $1 AND i.created_at >= $2: pairs <<i, o>>.
PatternJoin(industry, cutoff_date) ==
    {pair \in (DOMAIN interactions) \X (DOMAIN opportunities) :
        /\ interactions[pair[1]].customer_id = opportunities[pair[2]].customer_id
        /\ interactions[pair[1]].customer_id \in DOMAIN customers
        /\ customers[interactions[pair[1]].customer_id].industry = industry
        /\ interactions[pair[1]].created_at >= cutoff_date}

\* GROUP BY i.type, i.notes, i.topics, i.sentiment, o.status.
SuccessKey(pair) ==
    [type |-> interactions[pair[1]].type,
     notes |-> interactions[pair[1]].notes,
     topics |-> interactions[pair[1]].topics,
     sentiment |-> interactions[pair[1]].sentiment,
     outcome |-> opportunities[pair[2]].status]

\* rate >= min_success_rate, the rate being <<numerator, denominator>>.
RateAtLeast(rate, min_success_rate) == rate[1] * 100 >= min_success_rate * rate[2]

\* The CTE successful_interactions: one row per group, with its row count
\* as frequency and AVG(CASE WHEN o.status = 'won' THEN 1 ELSE 0 END) as
\* success_rate, the groups below $3 being dropped by HAVING.
successful_interactions(industry, cutoff_date, min_success_rate) ==
    LET pairs == PatternJoin(industry, cutoff_date)
        keys == {SuccessKey(pair) : pair \in pairs}
        Members(k) == {pair \in pairs : SuccessKey(pair) = k}
        Won(k) == {pair \in Members(k) : opportunities[pair[2]].status = "won"}
        Row(k) == [type |-> k.type, notes |-> k.notes, topics |-> k.topics,
                   sentiment |-> k.sentiment, outcome |-> k.outcome,
                   frequency |-> Cardinality(Members(k)),
                   success_rate |-> <<Cardinality(Won(k)), Cardinality(Members(k))>>]
    IN  {Row(k) : k \in {g \in keys : RateAtLeast(Row(g).success_rate,
                                                  min_success_rate)}}

\* The sum of rates, as <<numerator, denominator>>.
RECURSIVE SumRates(_)
SumRates(rows) ==
    IF rows = {} THEN <<0, 1>>
    ELSE LET r == CHOOSE x \in rows : TRUE
             rest == SumRates(rows \ {r})
         IN  <<r.success_rate[1] * rest[2] + rest[1] * r.success_rate[2],
               r.success_rate[2] * rest[2]>>

\* The row of the outer SELECT for one type: GROUP BY type with the count
\* of the CTE's rows as frequency, AVG(success_rate) and one example per
\* row of the CTE (in an order that is the store's).
PatternRow(rows, type) ==
    LET group == {r \in rows : r.type = type}
        total == SumRates(group)
        examples == SetToSeq(group)
    IN  [pattern_type |-> type,
         frequency |-> Cardinality(group),
         avg_success_rate |-> <<total[1], total[2] * Cardinality(group)>>,
         example_interactions |->
             [k \in DOMAIN examples |-> [notes |-> examples[k].notes,
                                         topics |-> examples[k].topics,
                                         sentiment |-> examples[k].sentiment]]]

\* pool.fetch of the patterns query: the answers the store can give, ORDER
\* BY frequency DESC leaving the order of equal frequencies to the store.
FetchPatterns(industry, cutoff_date, min_success_rate) ==
    LET rows == successful_interactions(industry, cutoff_date, min_success_rate)
        types == {r.type : r \in rows}
        Frequency(t) == PatternRow(rows, t).frequency
        ordered == {p \in Perms(types) :
                      \A i, j \in DOMAIN p :
                          i < j => Frequency(p[i]) >= Frequency(p[j])}
    IN  {[k \in DOMAIN p |-> PatternRow(rows, p[k])] : p \in ordered}

Industries == {"Technology", "Financial"}

get_successful_patterns ==
    /\ pc = "idle"
    /\ \E industry \in Industries, min_success_rate \in {0, 60, 100},
          days \in {1, 2}, fault \in {"none", "store"} :
        /\ req' = [op |-> "get_successful_patterns", industry |-> industry,
                   min_success_rate |-> min_success_rate, days |-> days,
                   fault |-> fault]
        /\ LET cutoff_date == Now - days
           IN  \E patterns \in FetchPatterns(industry, cutoff_date,
                                             min_success_rate) :
                 resp' = ExceptException(
                           IF fault = "store" THEN Raised(PostgresError)
                           ELSE Ok(patterns))
    /\ queries' = 1
    /\ pc' = "done"
    /\ fetch
    /\ UNCHANGED procVars

PatternInit ==
    /\ docs = <<>>
    /\ interactions \in Tables(PatternInteractionKinds, MaxInteractions)
    /\ opportunities \in Tables(PatternOpportunityKinds, MaxOpportunities)
    /\ customers = TwoCustomers
    /\ sales_people = {}
    /\ pool = NoPool
    /\ run = NoRun
    /\ gen = NoGen
    /\ mongo = NoMongo
    /\ tasks = NoTasks
    /\ pools = <<>>
    /\ config = NoConfig
    /\ pc = "idle"
    /\ req = NoRequest
    /\ resp = NoResponse
    /\ queries = 0

PatternNext ==
    \/ get_successful_patterns
    \/ Return

PatternSpec == PatternInit /\ [][PatternNext]_vars

(***************************************************************************)
(* The API as a whole: the two searches and the four mining endpoints over *)
(* one store, requests in any order.                                       *)
(***************************************************************************)
MaxReadRows == 1

ReadDocKinds ==
    SetToSeq([source_type : {"customer", "interaction"}, source_id : {1},
              embedding : {<<5, 0>>}, created_at : {1},
              competitor : {Some("acme")}])

ReadInteractionKinds ==
    SetToSeq([customer_id : {1}, type : {"call"}, notes : {"a"},
              next_steps : {"x"}, sentiment : {"positive", "negative"},
              topics : {{"pricing"}}, created_at : {1}])

ReadOpportunityKinds ==
    SetToSeq([customer_id : {1}, status : {"won", "lost"}, value : {120000}])

ReadInit ==
    /\ docs \in Tables(ReadDocKinds, MaxReadRows)
    /\ interactions \in Tables(ReadInteractionKinds, MaxReadRows)
    /\ opportunities \in Tables(ReadOpportunityKinds, MaxReadRows)
    /\ customers = TwoCustomers
    /\ sales_people = {}
    /\ pool = NoPool
    /\ run = NoRun
    /\ gen = NoGen
    /\ mongo = NoMongo
    /\ tasks = NoTasks
    /\ pools = <<>>
    /\ config = NoConfig
    /\ pc = "idle"
    /\ req = NoRequest
    /\ resp = NoResponse
    /\ queries = 0

ReadNext ==
    \/ semantic_search
    \/ contextual_search
    \/ get_successful_patterns
    \/ get_objection_handling
    \/ analyze_competitor_mentions
    \/ get_sales_suggestions
    \/ Return

ReadSpec == ReadInit /\ [][ReadNext]_vars

(***************************************************************************)
(* api/rag-api.py: concurrent requests and RAGConfig.get_pool              *)
(*                                                                         *)
(* The requests of one server process run as tasks of one event loop: a    *)
(* task runs until its next await, where any other task may run.  tasks    *)
(* maps a task to the request it serves: its position pc, the pool that    *)
(* Depends(get_db) handed to it (an index into pools) and its response.    *)
(* config.pool is RAGConfig.pool, None or the index of a pool.             *)
(***************************************************************************)
\* The object asyncpg.create_pool returns: an open pool with nothing
\* checked out.
NewPool == [state |-> "open", out |-> 0]

\* Depends(get_db), up to the first await of RAGConfig.get_pool: with
\* `if not self.pool` true the task goes on to await create_pool, else
\* get_pool returns self.pool at once.
get_pool(t) ==
    /\ tasks[t] = NoTask
    /\ \E query \in Queries :
        tasks' = [tasks EXCEPT ![t] =
                    [op |-> "semantic_search",
                     pc |-> IF IsSet(config.pool) THEN "embedding"
                            ELSE "create_pool",
                     query |-> query, pool |-> config.pool,
                     resp |-> NoResponse]]
    /\ UNCHANGED <<storeVars, pc, req, resp, queries, pool, run, gen, mongo,
                   pools, config>>

\* self.pool = await asyncpg.create_pool(self.db_url); return self.pool:
\* the await ends, the new pool is assigned and returned.  When create_pool
\* raises, the dependency fails and the request is answered with a 500.
get_pool_create_pool(t) ==
    /\ tasks[t].op = "semantic_search" /\ tasks[t].pc = "create_pool"
    /\ \E answer \in Answers :
        IF answer = "ok"
        THEN /\ pools' = Append(pools, NewPool)
             /\ config' = [config EXCEPT !.pool = Some(Len(pools) + 1)]
             /\ tasks' = [tasks EXCEPT ![t].pc = "embedding",
                                       ![t].pool = Some(Len(pools) + 1)]
        ELSE /\ tasks' = [tasks EXCEPT ![t].pc = "raised",
                                       ![t].resp = HTTPException(500, PostgresError)]
             /\ UNCHANGED <<pools, config>>
    /\ UNCHANGED <<storeVars, pc, req, resp, queries, pool, run, gen, mongo>>

\* query_embedding = await config.get_embedding(query), inside try.
request_embedding(t) ==
    /\ tasks[t].op = "semantic_search" /\ tasks[t].pc = "embedding"
    /\ \E answer \in Answers :
        tasks' = IF answer = "ok"
                 THEN [tasks EXCEPT ![t].pc = "fetch"]
                 ELSE [tasks EXCEPT ![t].pc = "raised",
                          ![t].resp = ExceptException(Raised(EncoderError))]
    /\ UNCHANGED <<storeVars, pc, req, resp, queries, pool, run, gen, mongo,
                   pools, config>>

\* results = await pool.fetch(...) on the pool the request was given: the
\* pool takes a connection for the statement and takes it back.
request_fetch(t) ==
    /\ tasks[t].op = "semantic_search" /\ tasks[t].pc = "fetch"
    /\ pools[Val(tasks[t].pool)].state = "open"
    /\ \E answer \in Answers :
        IF answer = "raise"
        THEN tasks' = [tasks EXCEPT ![t].pc = "raised",
                          ![t].resp = ExceptException(Raised(PostgresError))]
        ELSE LET params == SemanticParams(get_embedding(tasks[t].query),
                                           DefaultMinSimilarity, None)
             IN  \E results \in FetchDocuments(docs, SemanticWhere(None),
                                               params, DefaultApiLimit) :
                    tasks' = [tasks EXCEPT ![t].pc = "returned",
                                 ![t].resp = Ok(SearchResponse(results,
                                                               tasks[t].query))]
    /\ fetch
    /\ UNCHANGED <<pc, req, resp, queries, pool, run, gen, mongo, pools, config>>

\* The response goes out and the task ends.
request_return(t) ==
    /\ tasks[t].op = "semantic_search" /\ tasks[t].pc \in Ended
    /\ tasks' = [tasks EXCEPT ![t] = NoTask]
    /\ UNCHANGED <<storeVars, pc, req, resp, queries, pool, run, gen, mongo,
                   pools, config>>

\* The server process starts over an arbitrary document table.
ServerInit ==
    /\ docs \in Tables(ReadDocKinds, MaxReadRows)
    /\ interactions = <<>>
    /\ opportunities = <<>>
    /\ customers = <<>>
    /\ sales_people = {}
    /\ pool = NoPool
    /\ run = NoRun
    /\ gen = NoGen
    /\ mongo = NoMongo
    /\ tasks = NoTasks
    /\ pools = <<>>
    /\ config = NoConfig
    /\ pc = "idle"
    /\ req = NoRequest
    /\ resp = NoResponse
    /\ queries = 0

ServerNext ==
    \E t \in Tasks :
        \/ get_pool(t)
        \/ get_pool_create_pool(t)
        \/ request_embedding(t)
        \/ request_fetch(t)
        \/ request_return(t)

ServerSpec == ServerInit /\ [][ServerNext]_vars

(***************************************************************************)
(* api/rag-api-extended-patterns.py: get_conversation_history              *)
(*                                                                         *)
(* created_at counts half days, DATE(created_at) being the day they fall   *)
(* in.  The statement names created_at without its table although          *)
(* interactions and sales_people both have the column; the model reads it  *)
(* as the interaction's, the column every other part of the statement      *)
(* uses.                                                                   *)
(***************************************************************************)
MaxTurns == 2

ConversationInteractionKinds ==
    SetToSeq([customer_id : {1}, sales_person_id : {1},
              type : {"call", "email"}, notes : {"a"},
              sentiment : {"positive"}, created_at : {1, 2, 3}])

\* datetime.now(), in half days, and DATE(timestamp).
NowHalfDays == 2 * Now
Date(created_at) == (created_at + 1) \div 2

\* where_clauses and params as the handler assembles them:
\* <<where_clauses, params>>.
ConversationQuery(customer_id, interaction_types, cutoff_date) ==
    LET w0 == <<Clause("customer_id_eq", 1, 0)>>
        p0 == <<customer_id>>
        i0 == 2
        hasTypes == Truthy(interaction_types)
        w1 == IF hasTypes THEN Append(w0, Clause("type_any", i0, 0)) ELSE w0
        p1 == IF hasTypes THEN Append(p0, Val(interaction_types)) ELSE p0
        i1 == IF hasTypes THEN i0 + 1 ELSE i0
    IN  <<Append(w1, Clause("created_ge", i1, 0)), Append(p1, cutoff_date)>>

\* A clause of the conversation query on a row of interactions: each
\* placeholder is read from params at its number.
EvalConversationClause(row, c, params) ==
    CASE c.kind = "customer_id_eq" -> row.customer_id = params[c.a]
      [] c.kind = "type_any" -> row.type \in params[c.a]
      [] c.kind = "created_ge" -> row.created_at >= params[c.a]

\* The CTE conversation_thread: the interactions that have their sales
\* person and satisfy the clauses.
conversation_thread(where_clauses, params) ==
    {i \in DOMAIN interactions :
        /\ interactions[i].sales_person_id \in sales_people
        /\ \A k \in DOMAIN where_clauses :
               EvalConversationClause(interactions[i], where_clauses[k], params)}

\* ROW_NUMBER() OVER (PARTITION BY DATE(i.created_at) ORDER BY i.created_at):
\* the numberings the store can give, rows of equal created_at in any order.
TurnNumbers(thread) ==
    {n \in [thread -> 1..Cardinality(thread)] :
        \A i \in thread :
            LET day == {j \in thread : Date(interactions[j].created_at)
                                         = Date(interactions[i].created_at)}
            IN  /\ n[i] <= Cardinality(day)
                /\ \A j \in day :
                    /\ (i # j => n[i] # n[j])
                    /\ (interactions[i].created_at < interactions[j].created_at
                            => n[i] < n[j])}

\* pool.fetch of the conversation query: the turns in the order of their
\* timestamp (ORDER BY timestamp ASC), speakers alternating by turn number.
FetchConversation(where_clauses, params) ==
    LET thread == conversation_thread(where_clauses, params)
        ordered == {p \in Perms(thread) :
                      \A i, j \in DOMAIN p :
                          i < j => interactions[p[i]].created_at
                                     <= interactions[p[j]].created_at}
    IN  {[k \in DOMAIN p |->
            [speaker |-> IF n[p[k]] % 2 = 1 THEN "sales_person" ELSE "customer",
             content |-> interactions[p[k]].notes,
             timestamp |-> interactions[p[k]].created_at,
             sentiment |-> interactions[p[k]].sentiment]] :
         p \in ordered, n \in TurnNumbers(thread)}

\* days: int = Query(default=30, ge=1, le=365).
DaysMin == 1

InteractionTypeLists == {None, Some({}), Some({"call"}), Some({"call", "email"})}

get_conversation_history ==
    /\ pc = "idle"
    /\ \E customer_id \in {1, 2}, days \in 0..2,
          interaction_types \in InteractionTypeLists,
          fault \in {"none", "store"} :
        /\ req' = [op |-> "get_conversation_history", customer_id |-> customer_id,
                   days |-> days, interaction_types |-> interaction_types,
                   fault |-> fault]
        /\ IF days < DaysMin
           THEN resp' = RequestValidationError /\ queries' = 0
           ELSE LET cutoff_date == NowHalfDays - 2 * days
                    q == ConversationQuery(customer_id, interaction_types,
                                           cutoff_date)
                IN  /\ \E conversations \in FetchConversation(q[1], q[2]) :
                        resp' = ExceptException(
                                  IF fault = "store" THEN Raised(PostgresError)
                                  ELSE Ok(conversations))
                    /\ queries' = 1
    /\ pc' = "done"
    /\ fetch
    /\ UNCHANGED procVars

(***************************************************************************)
(* The handlers that assemble their WHERE clause from optional filters,    *)
(* over a store of documents and interactions.                             *)
(***************************************************************************)
FilterInit ==
    /\ docs \in Tables(ReadDocKinds, MaxReadRows)
    /\ interactions \in Tables(ConversationInteractionKinds, MaxTurns)
    /\ opportunities = <<>>
    /\ customers = TwoCustomers
    /\ sales_people = {1}
    /\ pool = NoPool
    /\ run = NoRun
    /\ gen = NoGen
    /\ mongo = NoMongo
    /\ tasks = NoTasks
    /\ pools = <<>>
    /\ config = NoConfig
    /\ pc = "idle"
    /\ req = NoRequest
    /\ resp = NoResponse
    /\ queries = 0

FilterNext ==
    \/ semantic_search
    \/ contextual_search
    \/ loader_semantic_search
    \/ loader_contextual_search
    \/ get_conversation_history
    \/ Return

FilterSpec == FilterInit /\ [][FilterNext]_vars

(***************************************************************************)
(* scripts/postgres-loader.py: concurrent loader calls                     *)
(*                                                                         *)
(* Calls of PostgresRAGLoader methods run as tasks of one event loop.      *)
(* Every call creates a pool of its own (pool = await create_pool(...)) ,  *)
(* so a task's pool is the index in pools of the pool it created.  A pool  *)
(* [state, out, size] hands out at most size connections at a time:        *)
(* pool.acquire() waits while all of them are checked out.  held counts    *)
(* the `async with pool.acquire()` blocks the task is inside.  Each task    *)
(* makes one call; the store answers the INSERTs by its tables' keys.      *)
(***************************************************************************)
\* The number of connections of a pool.  create_pool is called with the
\* database URL alone, so the size is the library's; the model draws it.
MaxPoolSize == 2
PoolSizes == 1..MaxPoolSize

\* The object asyncpg.create_pool returns.
NewSizedPool(size) == [state |-> "open", out |-> 0, size |-> size]

\* pool.acquire() returns at once only when a connection is free.
HasFreeConnection(ps, i) == ps[i].state = "open" /\ ps[i].out < ps[i].size

\* Entering and leaving `async with pool.acquire() as conn`.
PoolAcquire(ps, i) == [ps EXCEPT ![i].out = @ + 1]
PoolRelease(ps, i, n) == [ps EXCEPT ![i].out = @ - n]

\* finally: if pool: await pool.close().
PoolClose(ps, i) == [ps EXCEPT ![i].state = "closed"]

\* The datasets of the concurrent calls: one customer and at most one
\* interaction, of that customer.
TaskDatasets ==
    {[customers |-> <<DatasetCustomers[n]>>,
      interactions |-> SubSeq(DatasetInteractions, n, n + m - 1)] :
        n \in 1..Len(DatasetCustomers), m \in 0..1}

\* The task's call ends by an exception raised inside held of its
\* `async with` blocks: they release on the way out, finally closes the pool.
TaskRaise(t, exc, held) ==
    /\ tasks' = [tasks EXCEPT ![t].pc = "raised", ![t].held = 0,
                              ![t].resp = Raised(exc)]
    /\ pools' = PoolClose(PoolRelease(pools, Val(tasks[t].pool), held),
                          Val(tasks[t].pool))

\* load_data(dataset): pool = None; pool = await asyncpg.create_pool(...).
\* When it raises, pool is still None and finally closes nothing.
task_load_data_create_pool(t) ==
    /\ tasks[t] = NoTask
    /\ \E dataset \in TaskDatasets, size \in PoolSizes, answer \in Answers :
        LET r == [op |-> "load_data", pc |-> "init_db", dataset |-> dataset,
                  k |-> 1, held |-> 0, pool |-> Some(Len(pools) + 1),
                  resp |-> NoResponse]
        IN  IF answer = "ok"
            THEN /\ tasks' = [tasks EXCEPT ![t] = r]
                 /\ pools' = Append(pools, NewSizedPool(size))
            ELSE /\ tasks' = [tasks EXCEPT ![t] =
                                [r EXCEPT !.pc = "raised", !.pool = None,
                                          !.resp = Raised(PostgresError)]]
                 /\ pools' = pools
    /\ UNCHANGED <<storeVars, pc, req, resp, queries, pool, run, gen, mongo,
                   config>>

\* await self.init_db(pool): its own `async with pool.acquire()` around the
\* CREATE ... IF NOT EXISTS statements.
task_load_data_init_db(t) ==
    /\ tasks[t].op = "load_data" /\ tasks[t].pc = "init_db"
    /\ HasFreeConnection(pools, Val(tasks[t].pool))
    /\ \E answer \in Answers :
        IF answer = "ok"
        THEN tasks' = [tasks EXCEPT ![t].pc = "acquire"] /\ pools' = pools
        ELSE TaskRaise(t, PostgresError, 0)
    /\ UNCHANGED <<storeVars, pc, req, resp, queries, pool, run, gen, mongo,
                   config>>

\* async with pool.acquire() as conn: the connection of the INSERTs, held
\* until both loops have ended.
task_load_data_acquire(t) ==
    /\ tasks[t].op = "load_data" /\ tasks[t].pc = "acquire"
    /\ HasFreeConnection(pools, Val(tasks[t].pool))
    /\ tasks' = [tasks EXCEPT ![t].pc = "customer", ![t].k = 1, ![t].held = 1]
    /\ pools' = PoolAcquire(pools, Val(tasks[t].pool))
    /\ UNCHANGED <<storeVars, pc, req, resp, queries, pool, run, gen, mongo,
                   config>>

\* await conn.execute(INSERT INTO customers ...) of the customer at k.
task_load_data_insert_customer(t) ==
    /\ tasks[t].op = "load_data" /\ tasks[t].pc = "customer"
    /\ LET customer == tasks[t].dataset.customers[tasks[t].k]
           inserted == Insert(customers, customer.id,
                              [industry |-> customer.industry])
       IN  IF ~IsSet(inserted)
           THEN TaskRaise(t, UniqueViolation, tasks[t].held)
                    /\ UNCHANGED customers
           ELSE /\ customers' = Val(inserted)
                /\ tasks' = [tasks EXCEPT ![t].pc = "customer_doc"]
                /\ pools' = pools
    /\ UNCHANGED <<docs, interactions, opportunities, sales_people,
                   pc, req, resp, queries, pool, run, gen, mongo, config>>

\* await conn.execute(INSERT INTO interactions ...) of the interaction at
\* k, its foreign keys checked by the store.
task_load_data_insert_interaction(t) ==
    /\ tasks[t].op = "load_data" /\ tasks[t].pc = "interaction"
    /\ LET interaction == tasks[t].dataset.interactions[tasks[t].k]
           inserted == Insert(interactions, interaction.id,
                              [customer_id |-> interaction.customerId,
                               sales_person_id |-> interaction.salesPersonId,
                               type |-> interaction.type,
                               notes |-> interaction.notes,
                               sentiment |-> interaction.sentiment,
                               topics |-> interaction.topics,
                               created_at |-> Now])
       IN  IF ~IsSet(inserted)
           THEN TaskRaise(t, UniqueViolation, tasks[t].held)
                    /\ UNCHANGED interactions
           ELSE IF \/ interaction.customerId \notin DOMAIN customers
                   \/ interaction.salesPersonId \notin sales_people
           THEN TaskRaise(t, ForeignKeyViolation, tasks[t].held)
                    /\ UNCHANGED interactions
           ELSE /\ interactions' = Val(inserted)
                /\ tasks' = [tasks EXCEPT ![t].pc = "interaction_doc"]
                /\ pools' = pools
    /\ UNCHANGED <<docs, opportunities, customers, sales_people,
                   pc, req, resp, queries, pool, run, gen, mongo, config>>

\* store_document_with_embedding(pool, ...), called inside the block of
\* load_data: embedding = await self.generate_embedding(content).
task_store_document_embedding(t) ==
    /\ tasks[t].op = "load_data"
    /\ tasks[t].pc \in {"customer_doc", "interaction_doc"}
    /\ \E answer \in Answers :
        IF answer = "raise"
        THEN TaskRaise(t, EncoderError, tasks[t].held)
        ELSE /\ tasks' = [tasks EXCEPT
                            ![t].pc = IF tasks[t].pc = "customer_doc"
                                      THEN "customer_doc_acquire"
                                      ELSE "interaction_doc_acquire"]
             /\ pools' = pools
    /\ UNCHANGED <<storeVars, pc, req, resp, queries, pool, run, gen, mongo,
                   config>>

\* `async with pool.acquire() as conn` of store_document_with_embedding,
\* on the pool load_data passed in: it returns when a connection is free.
task_store_document_acquire(t) ==
    /\ tasks[t].op = "load_data"
    /\ tasks[t].pc \in {"customer_doc_acquire", "interaction_doc_acquire"}
    /\ HasFreeConnection(pools, Val(tasks[t].pool))
    /\ tasks' = [tasks EXCEPT
                   ![t].pc = IF tasks[t].pc = "customer_doc_acquire"
                             THEN "customer_doc_insert"
                             ELSE "interaction_doc_insert",
                   ![t].held = @ + 1]
    /\ pools' = PoolAcquire(pools, Val(tasks[t].pool))
    /\ UNCHANGED <<storeVars, pc, req, resp, queries, pool, run, gen, mongo,
                   config>>

\* await conn.execute(INSERT INTO document_embeddings ...) with a fresh id,
\* the end of the inner block, and the caller's next iteration.
task_store_document_insert(t) ==
    /\ tasks[t].op = "load_data"
    /\ tasks[t].pc \in {"customer_doc_insert", "interaction_doc_insert"}
    /\ LET dataset == tasks[t].dataset
           customer == tasks[t].pc = "customer_doc_insert"
           entity == IF customer THEN dataset.customers[tasks[t].k]
                     ELSE dataset.interactions[tasks[t].k]
           last == customer /\ tasks[t].k = Len(dataset.customers)
       IN  /\ docs' = Append(docs,
                  [source_type |-> IF customer THEN "customer" ELSE "interaction",
                   source_id |-> entity.id,
                   embedding |-> get_embedding(IF customer THEN entity.industry
                                               ELSE entity.notes),
                   created_at |-> Now])
           /\ tasks' = [tasks EXCEPT
                          ![t].pc = IF customer
                                    THEN AfterCustomer(dataset, tasks[t].k)
                                    ELSE AfterInteraction(dataset, tasks[t].k),
                          ![t].k = IF last THEN 1 ELSE tasks[t].k + 1,
                          ![t].held = @ - 1]
           /\ pools' = PoolRelease(pools, Val(tasks[t].pool), 1)
    /\ UNCHANGED <<interactions, opportunities, customers, sales_people,
                   pc, req, resp, queries, pool, run, gen, mongo, config>>

\* The end of the `async with` block, then finally: await pool.close().
task_load_data_return(t) ==
    /\ tasks[t].op = "load_data" /\ tasks[t].pc = "release"
    /\ tasks' = [tasks EXCEPT ![t].pc = "returned", ![t].held = 0,
                              ![t].resp = Ok(<<>>)]
    /\ pools' = PoolClose(PoolRelease(pools, Val(tasks[t].pool), 1),
                          Val(tasks[t].pool))
    /\ UNCHANGED <<storeVars, pc, req, resp, queries, pool, run, gen, mongo,
                   config>>

\* semantic_search(query) of the loader: a pool of its own, the embedding,
\* one connection for the SELECT, and finally the pool is closed.
task_search_create_pool(t) ==
    /\ tasks[t] = NoTask
    /\ \E query \in Queries, size \in PoolSizes :
        /\ tasks' = [tasks EXCEPT ![t] =
                        [op |-> "loader_semantic_search", pc |-> "fetch",
                         query |-> query, held |-> 0,
                         pool |-> Some(Len(pools) + 1), resp |-> NoResponse]]
        /\ pools' = Append(pools, NewSizedPool(size))
    /\ UNCHANGED <<storeVars, pc, req, resp, queries, pool, run, gen, mongo,
                   config>>

task_search_fetch(t) ==
    /\ tasks[t].op = "loader_semantic_search" /\ tasks[t].pc = "fetch"
    /\ HasFreeConnection(pools, Val(tasks[t].pool))
    /\ \E answer \in Answers :
        IF answer = "raise"
        THEN TaskRaise(t, PostgresError, 0)
        ELSE LET params == LoaderSemanticParams(get_embedding(tasks[t].query),
                                                LimitOrDefault(None), None)
             IN  /\ \E a \in LoaderFetch(docs, LoaderSemanticWhere(None), params) :
                        tasks' = [tasks EXCEPT ![t].pc = "returned",
                                               ![t].resp = a]
                 /\ pools' = PoolClose(pools, Val(tasks[t].pool))
    /\ UNCHANGED <<storeVars, pc, req, resp, queries, pool, run, gen, mongo,
                   config>>

\* A step of the load_data call of task t.
load_data(t) ==
    \/ task_load_data_init_db(t)
    \/ task_load_data_acquire(t)
    \/ task_load_data_insert_customer(t)
    \/ task_store_document_embedding(t)
    \/ task_store_document_acquire(t)
    \/ task_store_document_insert(t)
    \/ task_load_data_insert_interaction(t)
    \/ task_load_data_return(t)

\* An empty database whose tables exist; sales people may have been
\* inserted by other means.
LoadInit ==
    /\ docs = <<>>
    /\ interactions = <<>>
    /\ opportunities = <<>>
    /\ customers = <<>>
    /\ sales_people \in {{}, {1}}
    /\ pool = NoPool
    /\ run = NoRun
    /\ gen = NoGen
    /\ mongo = NoMongo
    /\ tasks = NoTasks
    /\ pools = <<>>
    /\ config = NoConfig
    /\ pc = "idle"
    /\ req = NoRequest
    /\ resp = NoResponse
    /\ queries = 0

LoadNext ==
    \E t \in Tasks :
        \/ task_load_data_create_pool(t)
        \/ load_data(t)
        \/ task_search_create_pool(t)
        \/ task_search_fetch(t)

LoadSpec == LoadInit /\ [][LoadNext]_vars

(***************************************************************************)
(* Properties of the retrieval service.                                    *)
(***************************************************************************)
ApiSearchOps == {"semantic_search", "contextual_search"}
LoaderSearchOps == {"loader_semantic_search", "loader_contextual_search"}

\* An API search has answered with a result list.
ApiSearchServed == pc = "done" /\ req.op \in ApiSearchOps /\ resp.kind = "ok"

Results == Val(resp.body).results

\* Similarity of a stored document to the request's query.
SimilarityToQuery(id) == Similarity(docs[id].embedding, get_embedding(req.query))

\* C1: every result of semantic_search and contextual_search has a
\* similarity of at least the min_similarity supplied with the request.
C1_MinSimilarityRespected ==
    ApiSearchServed =>
        \A i \in DOMAIN Results : Results[i].similarity >= req.min_similarity

\* A search with a positive threshold that returned a document and held
\* back another one that is below the threshold.
C1_Witness ==
    /\ ApiSearchServed
    /\ req.min_similarity = 50
    /\ Len(Results) >= 1
    /\ \E id \in DOMAIN docs : SimilarityToQuery(id) < 50

\* C2: the results are sorted by similarity descending and, for equal
\* similarity, the more recently created document comes first.
C2_SortedWithRecencyTieBreak ==
    ApiSearchServed =>
        \A i, j \in DOMAIN Results :
            i < j =>
                \/ Results[i].similarity > Results[j].similarity
                \/ /\ Results[i].similarity = Results[j].similarity
                   /\ docs[Results[i].doc].created_at >= docs[Results[j].doc].created_at

\* C3: at most limit results are returned, and total is the number of
\* results returned.
C3_LimitRespected ==
    ApiSearchServed =>
        /\ Len(Results) <= req.limit
        /\ Val(resp.body).total = Len(Results)

\* A search that was cut by its limit: more documents pass the threshold
\* than the limit allows.
C3_Witness ==
    /\ ApiSearchServed
    /\ req.op = "semantic_search"
    /\ req.source_type = None
    /\ Len(Results) = req.limit
    /\ Cardinality({id \in DOMAIN docs : SimilarityToQuery(id) >= req.min_similarity})
         > req.limit

\* A contextual search with exactly one of start_date and end_date set,
\* otherwise valid and undisturbed.
PartialRange ==
    /\ pc = "done"
    /\ req.op = "contextual_search"
    /\ IsSet(req.context.start_date) # IsSet(req.context.end_date)
    /\ req.limit >= LimitMin /\ req.limit <= LimitMax

\* The documents that satisfy the clauses of the context other than dates.
MatchingButDates ==
    {id \in DOMAIN docs :
        /\ SimilarityToQuery(id) >= req.context.min_similarity
        /\ IsSet(req.context.customer_id) =>
               docs[id].source_id = Val(req.context.customer_id)
        /\ (IsSet(req.context.source_types) /\ Val(req.context.source_types) # {}) =>
               docs[id].source_type \in Val(req.context.source_types)}

EmbeddingFailed ==
    /\ pc = "done"
    /\ req.op \in {"semantic_search", "loader_semantic_search"}
    /\ req.fault = "embedding"
    /\ req.op = "semantic_search" => req.limit >= LimitMin /\ req.limit <= LimitMax

\* C5: when the embedding call fails during semantic_search the caller
\* receives the embedding failure as an error, never a result, and no store
\* query is issued for the request.
C5_EmbeddingFailureSurfaced ==
    EmbeddingFailed =>
        /\ resp.kind \in {"http_error", "raised"}
        /\ resp.detail = EncoderError
        /\ resp.body = None
        /\ queries = 0

\* The embedding failed for a search over a store that holds documents.
C5_Witness ==
    /\ EmbeddingFailed
    /\ req.op = "semantic_search"
    /\ Len(docs) >= 1
    /\ resp.status = 500

\* C6: a search called with limit <= 0 is rejected before any store query
\* is issued, and never answered as if another limit had been given.
C6_NonPositiveLimitRejected ==
    /\ (pc = "done" /\ req.op \in ApiSearchOps /\ req.limit <= 0) =>
           resp.kind = "http_error" /\ queries = 0
    /\ (pc = "done" /\ req.op \in LoaderSearchOps /\ IsSet(req.limit)
          /\ Val(req.limit) <= 0) =>
           resp.kind = "raised" /\ queries = 0

(***************************************************************************)
(* Properties of get_objection_handling (mine_objection_responses).        *)
(***************************************************************************)
ObjectionServed ==
    pc = "done" /\ req.op = "get_objection_handling" /\ resp.kind = "ok"

\* The won and the lost outcomes of the interactions tagged with the
\* request's objection type.
OutcomesWith(status) ==
    {pair \in ObjectionJoin(req.objection_type) :
        opportunities[pair[2]].status = status}

\* C7: success_rate = won / (won + lost) over the interactions tagged with
\* the objection type, whatever their notes, next_steps and sentiment.
C7_SuccessRateOverOutcomes ==
    ObjectionServed =>
        LET won == Cardinality(OutcomesWith("won"))
            lost == Cardinality(OutcomesWith("lost"))
            rate == Val(resp.body).success_rate
        IN  rate[1] * (won + lost) = won * rate[2]

\* The number of won outcomes whose response text is t.
WonWithNotes(t) ==
    Cardinality({pair \in OutcomesWith("won") : interactions[pair[1]].notes = t})

\* C8: recommended_approach is the response text that occurs most often
\* among the won outcomes, the lexically smallest of those tied.
C8_RecommendedIsMostFrequent ==
    ObjectionServed =>
        LET t == Val(resp.body).recommended_approach
        IN  \A u \in Range(Texts) :
                \/ WonWithNotes(t) > WonWithNotes(u)
                \/ WonWithNotes(t) = WonWithNotes(u) /\ TextRank(t) <= TextRank(u)

\* C9: the request fails with NotFound, and with nothing else, when no
\* interaction has the objection type among its topics.
C9_NotFoundWithoutMatch ==
    (/\ pc = "done" /\ req.op = "get_objection_handling" /\ req.fault = "none"
     /\ \A i \in DOMAIN interactions : req.objection_type \notin interactions[i].topics)
        => resp.kind = "http_error" /\ resp.status = 404

(***************************************************************************)
(* Properties of get_sales_suggestions (suggest).                          *)
(***************************************************************************)
\* C10: suggest(opportunity_id) fails with NotFound when no opportunity has
\* the id, an error kind other than that of an upstream or store failure.
C10_NotFoundForMissingOpportunity ==
    (/\ pc = "done" /\ req.op = "get_sales_suggestions" /\ req.fault = "none"
     /\ req.opportunity_id \notin DOMAIN opportunities)
        => resp.kind = "http_error" /\ resp.status = 404


(***************************************************************************)
(* Properties of the competitor analysis.                                  *)
(***************************************************************************)
CompetitorServed ==
    /\ pc = "done"
    /\ req.op = "analyze_competitor_mentions"
    /\ resp.kind = "ok"

CompetitorEntries == Range(Val(resp.body))

\* C11: analyze_competitor_mentions never returns a competitor entry whose
\* mention_count is below min_mentions, for every min_mentions >= 1.
C11_MinMentionsRespected ==
    CompetitorServed =>
        \A entry \in CompetitorEntries : entry.mention_count >= req.min_mentions

\* A competitor mentioned once is left out while another one, mentioned
\* twice, is returned.
C11_Witness ==
    /\ CompetitorServed
    /\ req.min_mentions = 2
    /\ CompetitorEntries # {}
    /\ \E name \in Competitors :
          /\ Cardinality(MentionsOf(
                 competitor_mentions(req.customer_id, Now - req.days), name)) = 1
          /\ \A entry \in CompetitorEntries : entry.competitor_name # name

ExecutiveSponsorship == "High-value deal - ensure executive sponsorship"

SuggestAnswered ==
    /\ pc = "done"
    /\ req.op = "get_sales_suggestions"
    /\ req.fault = "none"
    /\ req.opportunity_id \in DOMAIN opportunities

\* The answer is a Suggestion that lists the risk factor.
RiskFactorIncluded ==
    /\ resp.kind = "ok"
    /\ ExecutiveSponsorship \in Range(Val(resp.body).risk_factors)

\* C13: get_sales_suggestions includes the executive-sponsorship risk
\* factor when the opportunity's value is above the high-value threshold of
\* 100000, and does not include it when the value is at or below it.
C13_HighValueRiskFactor ==
    SuggestAnswered =>
        (RiskFactorIncluded
            <=> opportunities[req.opportunity_id].value > HighValueThreshold)

\* The interactions of the customer of the request's opportunity: what the
\* handler calls recent_interactions.
CustomerInteractions ==
    {i \in DOMAIN interactions :
        interactions[i].customer_id = opportunities[req.opportunity_id].customer_id}

SuggestionServed == SuggestAnswered /\ resp.kind = "ok"

\* C23: the next_steps of a suggestion hold no entry twice: the steps taken
\* from comparable won opportunities are deduplicated against each other
\* and against the steps already added.
C23_NextStepsDistinct ==
    SuggestionServed =>
        LET next_steps == Val(resp.body).next_steps
        IN  \A i, j \in DOMAIN next_steps :
                i # j => next_steps[i] # next_steps[j]

FollowUpMeeting == "Schedule follow-up meeting to address concerns"

PricingTalkingPoints ==
    <<"Emphasize ROI calculations", "Share relevant case studies",
      "Discuss flexible payment options">>

NegativePresent ==
    \E i \in CustomerInteractions : interactions[i].sentiment = "negative"

PricingPresent ==
    \E i \in CustomerInteractions : "pricing" \in interactions[i].topics

C27_SuggestionWithoutInteractions ==
    (SuggestAnswered /\ CustomerInteractions = {}) =>
        /\ resp.kind = "ok"
        /\ FollowUpMeeting \notin Range(Val(resp.body).next_steps)
        /\ Val(resp.body).talking_points = <<>>
        /\ RiskFactorIncluded
               <=> opportunities[req.opportunity_id].value > HighValueThreshold


(***************************************************************************)
(* Properties of the operations step by step.                              *)
(***************************************************************************)
\* C14: after any search or load operation returns or fails (embedding
\* failure, query failure, insert failure), no connection of a pool is
\* checked out by it.
C14_ConnectionsReleased ==
    (run.op # "none" /\ run.pc \in Ended) =>
        \A owner \in PoolOwners : pool[owner].out = 0

\* A load that failed at the INSERT of a document, inside both of its
\* `async with` blocks, after it had stored a document.
C14_Witness ==
    /\ run.op = "load_data"
    /\ run.pc = "raised"
    /\ resp.detail = PostgresError
    /\ Len(docs) = 1
    /\ DOMAIN customers = {1, 2}
    /\ pool["local"] = [state |-> "closed", out |-> 0]


SearchOps == {"semantic_search", "loader_semantic_search"}

\* C15: the embedding call and the store round-trip of a search are bounded
\* by a timeout: a search whose provider or store has stopped answering is
\* not blocked for ever, a step that ends it (the timeout) stays possible.
C15_StalledSearchTimesOut ==
    (run.op \in SearchOps /\ run.env = "stalled") => ENABLED RunNext

\* C17: after any sequence of load_data runs, failed and repeated ones
\* included, the store holds at most one document per pair
\* (source_type, source_id).
C17_OneDocumentPerSource ==
    /\ \A i, j \in DOMAIN docs :
        (/\ docs[i].source_type = docs[j].source_type
         /\ docs[i].source_id = docs[j].source_id) => i = j
    /\ \A i, j \in DOMAIN mongo.embeddings :
        mongo.embeddings[i] = mongo.embeddings[j] => i = j

\* A load is repeated over the store that an earlier load, failed between
\* the second customer's row and its document, has left: the repeated run
\* is stopped by the customers' primary key.
C17_Witness ==
    /\ run.op = "load_data"
    /\ run.pc = "raised"
    /\ resp.detail = UniqueViolation
    /\ DOMAIN customers = {1, 2}
    /\ Len(docs) = 1
\* The datasets generate_dataset can produce: every interaction is made for
\* a customer of the dataset.
Generated(dataset) ==
    \A k \in DOMAIN dataset.interactions :
        \E c \in DOMAIN dataset.customers :
            dataset.customers[c].id = dataset.interactions[k].customerId

\* C28: load_data inserts rows in an order that satisfies the schema's
\* references: an inserted interaction references a customer and a sales
\* person already inserted, a stored document's (source_type, source_id)
\* resolves to an inserted row, and so a load of a generated dataset is
\* never stopped by a reference that does not resolve.
C28_LoadSatisfiesReferences ==
    /\ \A i \in DOMAIN interactions :
        /\ interactions[i].customer_id \in DOMAIN customers
        /\ interactions[i].sales_person_id \in sales_people
    /\ \A d \in DOMAIN docs :
        /\ docs[d].source_type = "customer" => docs[d].source_id \in DOMAIN customers
        /\ docs[d].source_type = "interaction" =>
               docs[d].source_id \in DOMAIN interactions
    /\ (run.op = "load_data" /\ Generated(run.dataset) /\ run.pc = "raised") =>
           resp.detail # ForeignKeyViolation

\* The source type of the documents of each collection of the dataset.
SourceTypeOf ==
    [customers |-> Spell.customer, opportunities |-> Spell.opportunity,
     interactions |-> Spell.interaction]

\* C29: a completed load_data of the Mongo loader has stored one embedding
\* document for every customer, every opportunity and every interaction of
\* the dataset whose text is not empty, and the source_type of every
\* stored embedding is customer, interaction or opportunity.
C29_EmbeddingPerEntity ==
    (run.op = "mongo_load_data" /\ run.pc = "returned") =>
        /\ \A c \in DOMAIN SourceTypeOf :
            \A k \in DOMAIN run.dataset[c] :
                run.dataset[c][k].text # "" =>
                    Cardinality({e \in DOMAIN mongo.embeddings :
                        mongo.embeddings[e] =
                            [source_type |-> SourceTypeOf[c],
                             source_id |-> run.dataset[c][k].id]}) = 1
        /\ \A e \in DOMAIN mongo.embeddings :
            mongo.embeddings[e].source_type
                \in {SourceTypeOf[c] : c \in DOMAIN SourceTypeOf}


(***************************************************************************)
(* Properties of the data generator.                                       *)
(***************************************************************************)
\* C18: for every integer seed, 0 included, two SalesDataGenerator
\* instances created with the same seed and asked for the same numbers
\* produce datasets equal in every field: ids, field values, timestamps.
C18_SeededGenerationReproducible ==
    (gen # NoGen) =>
        \A g, h \in DOMAIN gen.instances :
            (/\ IsSet(gen.instances[g].seed)
             /\ gen.instances[g].seed = gen.instances[h].seed
             /\ IsSet(gen.instances[g].dataset)
             /\ IsSet(gen.instances[h].dataset))
            => /\ gen.instances[g].dataset = gen.instances[h].dataset
               /\ gen.instances[g].products = gen.instances[h].products


(***************************************************************************)
(* Properties of the contextual filter.                                    *)
(***************************************************************************)
ContextualServed ==
    pc = "done" /\ req.op = "contextual_search" /\ resp.kind = "ok"

\* C19: for every combination of set and unset ContextFilter fields, every
\* document returned by contextual_search satisfies the clauses of the
\* fields that are set: source_id = customer_id when customer_id is set,
\* created_at within [start_date, end_date] when both are set, source_type
\* in source_types when source_types is set, and similarity >=
\* min_similarity always.
C19_SetFieldsFilter ==
    ContextualServed =>
        \A i \in DOMAIN Results :
            LET context == req.context
                row == docs[Results[i].doc]
            IN  /\ Results[i].similarity >= context.min_similarity
                /\ IsSet(context.customer_id) =>
                       row.source_id = Val(context.customer_id)
                /\ (IsSet(context.start_date) /\ IsSet(context.end_date)) =>
                       /\ row.created_at >= Val(context.start_date)
                       /\ row.created_at <= Val(context.end_date)
                /\ IsSet(context.source_types) =>
                       row.source_type \in Val(context.source_types)


(***************************************************************************)
(* Properties of the success patterns.                                     *)
(***************************************************************************)
PatternsServed ==
    pc = "done" /\ req.op = "get_successful_patterns" /\ resp.kind = "ok"

\* The pairs the request looks at, and their groups by the attributes of
\* the interaction.
RequestPairs == PatternJoin(req.industry, Now - req.days)

InteractionKey(pair) ==
    [type |-> interactions[pair[1]].type,
     notes |-> interactions[pair[1]].notes,
     topics |-> interactions[pair[1]].topics,
     sentiment |-> interactions[pair[1]].sentiment]

\* The fraction of a group's pairs whose outcome is won.
WonFraction(k) ==
    LET members == {pair \in RequestPairs : InteractionKey(pair) = k}
        won == {pair \in members : opportunities[pair[2]].status = "won"}
    IN  <<Cardinality(won), Cardinality(members)>>

\* C20: in get_successful_patterns a group's success_rate is the fraction
\* of its interaction-opportunity pairs whose outcome is won, and only the
\* groups whose success_rate is at least min_success_rate contribute to the
\* returned patterns: a type is returned when, and only when, one of its
\* groups reaches the threshold.
C20_OnlyGroupsAboveThreshold ==
    PatternsServed =>
        {Val(resp.body)[i].pattern_type : i \in DOMAIN Val(resp.body)}
            = {InteractionKey(pair).type : pair \in
                 {p \in RequestPairs :
                    RateAtLeast(WonFraction(InteractionKey(p)),
                                req.min_success_rate)}}

\* The rows of the CTE the request retains (the groups at or above the
\* threshold), and the number of joined records in those of one type.
RetainedGroups ==
    successful_interactions(req.industry, Now - req.days, req.min_success_rate)

RECURSIVE SumOfSizes(_)
SumOfSizes(rows) ==
    IF rows = {} THEN 0
    ELSE LET r == CHOOSE x \in rows : TRUE
         IN  r.frequency + SumOfSizes(rows \ {r})

\* C21: get_successful_patterns returns exactly one pattern per interaction
\* type among the retained groups, the pattern's frequency is the sum of
\* the sizes (numbers of joined records) of the retained groups of its
\* type, and the patterns come in descending order of that frequency.
C21_FrequencyIsSumOfGroupSizes ==
    PatternsServed =>
        LET body == Val(resp.body)
            SizeOf(t) == SumOfSizes({r \in RetainedGroups : r.type = t})
        IN  /\ \A t \in {r.type : r \in RetainedGroups} :
                   Cardinality({i \in DOMAIN body : body[i].pattern_type = t}) = 1
            /\ \A i \in DOMAIN body :
                   /\ body[i].pattern_type \in {r.type : r \in RetainedGroups}
                   /\ body[i].frequency = SizeOf(body[i].pattern_type)
            /\ \A i, j \in DOMAIN body :
                   i < j => SizeOf(body[i].pattern_type)
                              >= SizeOf(body[j].pattern_type)

\* The cap the examples are checked against.  The handler has no such
\* number; the value stands for the fixed cap of the property, scaled to
\* the size of the tables.
ExamplesCap == 3

\* C22: the example_interactions of every pattern get_successful_patterns
\* returns has a bounded size: its length never exceeds a fixed cap,
\* however many records fall into the pattern's groups.
C22_ExamplesCapped ==
    PatternsServed =>
        \A i \in DOMAIN Val(resp.body) :
            Len(Val(resp.body)[i].example_interactions) <= ExamplesCap


(***************************************************************************)
(* Properties of the API as a whole.                                       *)
(***************************************************************************)
\* C16: no retrieval, mining or suggestion operation changes a stored
\* customer, interaction, opportunity or document: every step of every
\* sequence of these operations leaves the store as it was.
C16_StoreUnchanged == [][storeVars' = storeVars]_vars

\* A suggestion has been served from a store that holds a document, an
\* interaction and an opportunity.
C16_Witness ==
    /\ pc = "done"
    /\ req.op = "get_sales_suggestions"
    /\ resp.kind = "ok"
    /\ Len(docs) = 1 /\ Len(interactions) = 1 /\ Len(opportunities) = 1

(***************************************************************************)
(* Properties of the assembled predicates.                                 *)
(***************************************************************************)
\* The clauses and parameters the handler of the request assembles, and the
\* value each kind of clause is meant to compare with: <<a, b>>, the
\* values of its first and second placeholder (b is 0 without a second).
AssembledQuery ==
    CASE req.op = "semantic_search" ->
            <<SemanticWhere(req.source_type),
              SemanticParams(get_embedding(req.query), req.min_similarity,
                             req.source_type)>>
      [] req.op = "contextual_search" ->
            ContextualQuery(get_embedding(req.query), req.context)
      [] req.op = "loader_semantic_search" ->
            <<LoaderSemanticWhere(req.source_type),
              LoaderSemanticParams(get_embedding(req.query),
                                   LimitOrDefault(req.limit), req.source_type)>>
      [] req.op = "loader_contextual_search" ->
            LoaderContextualQuery(get_embedding(req.query),
                                  LimitOrDefault(req.limit), req.customer_id,
                                  req.date_range)
      [] req.op = "get_conversation_history" ->
            ConversationQuery(req.customer_id, req.interaction_types,
                              NowHalfDays - 2 * req.days)

MeantValues(kind) ==
    CASE kind = "similarity_ge" -> <<get_embedding(req.query), req.min_similarity>>
      [] kind = "source_type_eq" -> <<Val(req.source_type), 0>>
      [] kind = "source_id_eq" ->
            <<IF req.op = "contextual_search" THEN Val(req.context.customer_id)
              ELSE Val(req.customer_id), 0>>
      [] kind = "created_between" ->
            IF req.op = "contextual_search"
            THEN <<Val(req.context.start_date), Val(req.context.end_date)>>
            ELSE Val(req.date_range)
      [] kind = "source_type_any" -> <<Val(req.context.source_types), 0>>
      [] kind = "customer_id_eq" -> <<req.customer_id, 0>>
      [] kind = "type_any" -> <<Val(req.interaction_types), 0>>
      [] kind = "created_ge" -> <<NowHalfDays - 2 * req.days, 0>>

FilterOps ==
    {"semantic_search", "contextual_search", "loader_semantic_search",
     "loader_contextual_search", "get_conversation_history"}

\* C26: in the predicate a search or the conversation history assembles,
\* every placeholder number written into a clause is the position of that
\* clause's value in the parameter list, whatever optional filters are set,
\* and no placeholder points past the end of the list.
C26_PlaceholdersMatchParams ==
    (pc = "done" /\ req.op \in FilterOps) =>
        LET where_clauses == AssembledQuery[1]
            params == AssembledQuery[2]
        IN  /\ \A k \in DOMAIN where_clauses :
                LET c == where_clauses[k]
                IN  /\ c.a \in DOMAIN params
                    /\ params[c.a] = MeantValues(c.kind)[1]
                    /\ c.b # 0 =>
                        /\ c.b \in DOMAIN params
                        /\ params[c.b] = MeantValues(c.kind)[2]
            \* $1::vector of the SELECT list and LIMIT $2 of the loader
            /\ req.op # "get_conversation_history" =>
                   params[1] = get_embedding(req.query)
            /\ req.op \in {"loader_semantic_search", "loader_contextual_search"} =>
                   params[2] = LimitOrDefault(req.limit)

\* A contextual search served with every optional filter set (placeholders
\* 3 to 6 in use).
C26_Witness ==
    /\ pc = "done"
    /\ req.op = "contextual_search"
    /\ resp.kind = "ok"
    /\ IsSet(req.context.customer_id)
    /\ IsSet(req.context.start_date) /\ IsSet(req.context.end_date)
    /\ Truthy(req.context.source_types)
    /\ Len(AssembledQuery[2]) = 6


(***************************************************************************)
(* Properties of the concurrent calls.                                     *)
(***************************************************************************)
\* C25: RAGConfig.get_pool creates the shared pool at most once per
\* process: however the first requests interleave, one pool is created and
\* every request is handed that pool.
C25_PoolCreatedOnce ==
    /\ Len(pools) <= 1
    /\ \A t \in Tasks :
        (tasks[t].op = "semantic_search" /\ IsSet(tasks[t].pool))
            => tasks[t].pool = Some(1)


\* C30: load_data cannot block on its own pool: whatever the size of the
\* pool (1 or more) and whatever other load_data and search calls run at
\* the same time, a load_data call that has not ended can always take its
\* next step, so it never waits for a connection while it holds one.
C30_LoadDataNeverBlocks ==
    \A t \in Tasks :
        (tasks[t].op = "load_data" /\ tasks[t].pc \notin Ended)
            => ENABLED load_data(t)

=============================================================================
